---- MODULE Spec2Model ----
(***************************************************************************)
(* TelescopeTcp, the stream-connected telescope client of                  *)
(* src/src/modules/Telescope.cpp: the non-blocking connection life cycle   *)
(* (prepareSelectFds / handleSelectFds), the outbound goto queue           *)
(* (telescopeGoto / performWriting), the inbound frame parser              *)
(* (performReading) and the 16-slot position history with its time         *)
(* interpolation (getObsJ2000Pos).                                         *)
(*                                                                         *)
(* Representation choices, forced by TLC's 32-bit integers:                *)
(*  - long long values (timestamps) are kept in a signed 32-bit range, so  *)
(*    the sentinel 0x7FFFFFFFFFFFFFFF is INT64_MAX below and the initial   *)
(*    end_of_timeout -0x8000000000000000 is INT64_MIN; no computation of   *)
(*    the program comes near either end in the runs checked.               *)
(*  - a 32-bit angle integer is a record [hi, lo] of its two 16-bit halves.*)
(*  - cos and sin are exact on quarter turns, the only angles the modelled *)
(*    peers and callers use, so directions are integer vectors; a vector   *)
(*    scaled by 1/sqrt(f) is kept as the unscaled vector with unit = TRUE. *)
(*    Two opposite directions of the model stand for a pair of frames      *)
(*    whose decoded doubles are exactly opposite, such as ra_int 81726 and *)
(*    81726 + 0x80000000 with dec_int 0, for which rval is exactly zero at *)
(*    equal weights.                                                       *)
(***************************************************************************)
EXTENDS Integers, Sequences, FiniteSets, TLC

(***************************************************************************)
(* Program constants                                                       *)
(***************************************************************************)
ReadBuffSize == 120
WriteBuffSize == 120
NumPositions == 16
ReconnectDelay == 5000000
TimeoutRetryDelay == 1000000
GotoPacketSize == 20
MinPacketSize == 4
MinPositionPacketSize == 24
INVALID_SOCKET == -1
INT64_MAX == 2147483647
INT64_MIN == (-2147483647) - 1
\* errno values, by name; ECONNRESET stands for every other error
EINTR == "EINTR"
EAGAIN == "EAGAIN"
ECONNRESET == "ECONNRESET"

(***************************************************************************)
(* Bounds of the model                                                     *)
(***************************************************************************)
\* Spec: microseconds per Tick, and the last tick
LifeTick == 1000000
LifeMaxClock == 8
\* SpecData: microseconds per Tick, the last tick, the frames the peer sends
\* per connection and the goto frames that may wait in the outbound queue
DataTick == 1000000
DataMaxClock == 1
DataMaxFrames == 1
DataMaxQueued == 1
\* SpecRing: microseconds per Tick, the last tick and the frames the peer
\* sends per connection
RingTick == 2500000
RingMaxClock == 2
RingMaxFrames == 17
\* SpecGoto: microseconds per Tick and the last tick
GotoTick == 1000000
GotoMaxClock == 1
\* SpecParse: microseconds per Tick, the last tick and the frames the peer
\* sends per connection
ParseTick == 1000000
ParseMaxClock == 1
ParseMaxFrames == 3
\* SpecRetry: microseconds per Tick, the last tick and the frames the peer
\* sends per connection
RetryTick == 1000000
RetryMaxClock == 1
RetryMaxFrames == 2
\* SpecCycle: microseconds per Tick, the last tick and the frames the peer
\* sends per connection
CycleTick == 3000000
CycleMaxClock == 2
CycleMaxFrames == 1
\* SpecShort: microseconds per Tick, the last tick and the frames the peer
\* sends per connection
ShortTick == 1000000
ShortMaxClock == 1
ShortMaxFrames == 2
\* SpecDrain: the goto frames that may be queued
DrainMaxQueued == 2
\* SpecReattempt: microseconds per Tick and the last tick
ReattemptTick == 3000000
ReattemptMaxClock == 4
\* SpecFill: the frames the peer may send on a connection
FillMaxFrames == 2
\* SpecWire: how many of the 16-bit patterns the integers are built from
WireMaxLimbs == 5
\* SpecCodec: microseconds per Tick and the last tick
CodecTick == 1000000
CodecMaxClock == 1
\* SpecCreate: blanks around a type tag, extra fields after the delay
CreateMaxPad == 1
CreateMaxExtra == 1

VARIABLES
  fd,                                 \* SOCKET fd
  wait_for_connection_establishment,  \* bool
  end_of_timeout,                     \* long long int
  read_buff,                          \* bytes read_buff .. read_buff_end
  write_buff,                         \* bytes write_buff .. write_buff_end
  time_delay,                         \* int, set by the constructor
  positions,                          \* Position positions[16]
  position_pointer,                   \* index of *position_pointer
  clock,                              \* what GetNow() returns
  wire,                               \* bytes the peer has sent, not yet read
  os_open,                            \* descriptors the process holds open
  peer_sent,                          \* frames the peer sent on this connection
  ghost,                              \* history variables for the claims
  last                                \* the last operation and its inputs

vars == <<fd, wait_for_connection_establishment, end_of_timeout, read_buff,
          write_buff, time_delay, positions, position_pointer, clock, wire,
          os_open, peer_sent, ghost, last>>

progVars == <<fd, wait_for_connection_establishment, end_of_timeout, read_buff,
              write_buff, time_delay, positions, position_pointer>>

(***************************************************************************)
(* Vectors (Vec3d) and bytes                                               *)
(***************************************************************************)
Zero3 == <<0, 0, 0>>
VAdd(u, v) == <<u[1] + v[1], u[2] + v[2], u[3] + v[3]>>
VScale(u, k) == <<u[1] * k, u[2] * k, u[3] * k>>
Dot(u, v) == u[1] * v[1] + u[2] * v[2] + u[3] * v[3]
Cross(u, v) == <<u[2] * v[3] - u[3] * v[2],
                 u[3] * v[1] - u[1] * v[3],
                 u[1] * v[2] - u[2] * v[1]>>

Min(a, b) == IF a < b THEN a ELSE b

\* the n low bytes of a non-negative x, least significant first:
\* *p++ = x; x >>= 8;
RECURSIVE BytesLE(_, _)
BytesLE(x, n) == IF n = 0 THEN <<>> ELSE <<x % 256>> \o BytesLE(x \div 256, n - 1)

\* the integer whose little-endian bytes are b: b[1] | b[2] << 8 | ...
RECURSIVE IntLE(_)
IntLE(b) == IF b = <<>> THEN 0 ELSE Head(b) + 256 * IntLE(Tail(b))

\* a 32-bit integer as its two 16-bit halves
Word(hi, lo) == [hi |-> hi, lo |-> lo]
WordBytes(w) == BytesLE(w.lo, 2) \o BytesLE(w.hi, 2)
WordLE(b) == Word(IntLE(SubSeq(b, 3, 4)), IntLE(SubSeq(b, 1, 2)))

\* a 64-bit integer as its two 32-bit halves
Long(hi, lo) == [hi |-> hi, lo |-> lo]
LongBytes(x) == WordBytes(x.lo) \o WordBytes(x.hi)
LongLE(b) == Long(WordLE(SubSeq(b, 5, 8)), WordLE(SubSeq(b, 1, 4)))

\* the 32 bits of an int x, and the int that 32 bits are: (int)w
WordOf(x) == Word((x \div 65536) % 65536, x % 65536)
IntOf(w) ==
  IF w.hi >= 32768 THEN (w.hi - 65536) * 65536 + w.lo ELSE w.hi * 65536 + w.lo

\* the 64 bits of a long long x that fits an int
LongOf(x) == Long(IF x < 0 THEN Word(65535, 65535) ELSE Word(0, 0), WordOf(x))

\* raw angle integer of q quarter turns (2^32 = one turn), two's complement
QuarterWord(q) == Word(((q + 4) % 4) * 16384, 0)

\* quarter turns of a raw angle integer: x * (M_PI / 0x80000000), for the
\* angles whose cos and sin are exact
AngleQuarter(w) ==
  CASE w = Word(0, 0) -> 0
    [] w = Word(16384, 0) -> 1
    [] w = Word(32768, 0) -> 2
    [] w = Word(49152, 0) -> 3

Cos(w) == <<1, 0, -1, 0>>[AngleQuarter(w) + 1]
Sin(w) == <<0, 1, 0, -1>>[AngleQuarter(w) + 1]

\* atan2(y, x) in quarter turns, for a vector along an axis (or atan2(0,0) = 0)
Atan2Quarter(y, x) ==
  CASE y = 0 /\ x >= 0 -> 0
    [] y > 0 /\ x = 0 -> 1
    [] y = 0 /\ x < 0 -> 2
    [] y < 0 /\ x = 0 -> -1

Abs(x) == IF x < 0 THEN -x ELSE x

(***************************************************************************)
(* The client as a record, so that the methods are functions on it         *)
(***************************************************************************)
Self ==
  [fd |-> fd,
   wait_for_connection_establishment |-> wait_for_connection_establishment,
   end_of_timeout |-> end_of_timeout,
   read_buff |-> read_buff,
   write_buff |-> write_buff,
   time_delay |-> time_delay,
   positions |-> positions,
   position_pointer |-> position_pointer,
   wire |-> wire,
   os_open |-> os_open,
   ghost |-> ghost]

Commit(t) ==
  /\ fd' = t.fd
  /\ wait_for_connection_establishment' = t.wait_for_connection_establishment
  /\ end_of_timeout' = t.end_of_timeout
  /\ read_buff' = t.read_buff
  /\ write_buff' = t.write_buff
  /\ time_delay' = t.time_delay
  /\ positions' = t.positions
  /\ position_pointer' = t.position_pointer
  /\ wire' = t.wire
  /\ os_open' = t.os_open
  /\ ghost' = t.ghost

IS_INVALID_SOCKET(s) == s < 0

isConnected(t) ==
  ~IS_INVALID_SOCKET(t.fd) /\ ~t.wait_for_connection_establishment

hasKnownPosition(t) ==
  t.positions[t.position_pointer].client_micros # INT64_MAX

ConnState(t) ==
  IF IS_INVALID_SOCKET(t.fd) THEN "Disconnected"
  ELSE IF t.wait_for_connection_establishment THEN "Connecting"
  ELSE "Connected"

(***************************************************************************)
(* History variables: what the claims speak of and the program forgets     *)
(***************************************************************************)
NoTime == 0 - 1

\* what create() hands back: no telescope, or the object it built
NULL ==
  [kind |-> "NULL", name |-> <<>>, host |-> <<>>, port |-> 0, time_delay |-> 0]

\* the three parts create() cuts a descriptor into
Parts(name, type, params) == [name |-> name, type |-> type, params |-> params]
NoParts == Parts(<<>>, <<>>, <<>>)

GhostInit ==
  [samples |-> <<>>,      \* the last <= 16 samples stored since the last reset
   nsamples |-> 0,        \* how many were stored since the last reset
   attempts |-> <<>>,     \* clock of the last two socket() calls
   peer_closed |-> NoTime, \* clock of the last zero-length read, until
                           \* the next socket() call
   after_close |-> NoTime, \* at the last socket() call, the time since the
                           \* zero-length read that preceded it, if one did
   stream |-> <<>>,        \* the bytes recv() has delivered since the last reset
   unsent |-> <<>>,        \* the goto frames queued since the last reset, less
                           \* the bytes send() has taken
   followed |-> 0,         \* the bytes of the outbound queue up to the end of
                           \* the goto frame that is followed, 0 when none is
   descriptor |-> <<>>,    \* the string create() is called with
   parts |-> NoParts,      \* the name, type and params create() cut it into
   rval |-> NULL,          \* what create() returned
   frame |-> <<>>,         \* the bytes a goto was serialized to
   misread |-> ""          \* what the parser has read that it should not
                           \* have: "beyond" the buffered bytes, or of an
                           \* "incomplete" frame; "" when nothing
  ]

LastN(s, n) == IF Len(s) <= n THEN s ELSE SubSeq(s, Len(s) - n + 1, Len(s))

GhostSample(t, smp) ==
  [t EXCEPT !.ghost.samples = LastN(Append(@, smp), NumPositions),
            !.ghost.nsamples = @ + 1]

\* the parser reads p[0..n-1], p being at offset p of read_buff; size is the
\* declared length of the frame at p, 0 when it is the length that is read
GhostPeek(t, p, n, size) ==
  LET avail == Len(t.read_buff) - p IN
  IF t.ghost.misread # "" THEN t
  ELSE IF avail < n THEN [t EXCEPT !.ghost.misread = "beyond"]
  ELSE IF size # 0 /\ (size < n \/ avail < size)
       THEN [t EXCEPT !.ghost.misread = "incomplete"]
  ELSE t

GhostReset(t) ==
  [t EXCEPT !.ghost.samples = <<>>, !.ghost.nsamples = 0,
            !.ghost.stream = <<>>, !.ghost.unsent = <<>>,
            !.ghost.followed = 0]

GhostRecv(t, bytes) ==
  [t EXCEPT !.ghost.stream = @ \o bytes]

GhostAttempt(t, now) ==
  [t EXCEPT !.ghost.attempts = LastN(Append(@, now), 2),
            !.ghost.after_close = IF t.ghost.peer_closed = NoTime THEN NoTime
                                  ELSE now - t.ghost.peer_closed,
            !.ghost.peer_closed = NoTime]

GhostPeerClosed(t, now) ==
  [t EXCEPT !.ghost.peer_closed = now]

(***************************************************************************)
(* The operating system's side of the socket calls                         *)
(***************************************************************************)
\* close(fd): the descriptor is released and what the peer had sent is gone
close(t) == [t EXCEPT !.os_open = @ - 1, !.wire = <<>>]

\* socket(AF_INET,SOCK_STREAM,0): a new descriptor, or failure
socket(t, ok) ==
  IF ok THEN [t EXCEPT !.fd = 3, !.os_open = @ + 1]
  ELSE [t EXCEPT !.fd = INVALID_SOCKET]

(***************************************************************************)
(* void TelescopeTcp::hangup(void)                                         *)
(***************************************************************************)
UnsetPosition ==
  [server_micros |-> INT64_MAX, client_micros |-> INT64_MAX,
   pos |-> Zero3, status |-> 0]

\* mutant: the outbound queue survives the hangup
hangup_keeps_write_buff(t) ==
  LET c == IF ~IS_INVALID_SOCKET(t.fd)
           THEN [close(t) EXCEPT !.fd = INVALID_SOCKET]
           ELSE t
  IN GhostReset(
       [c EXCEPT !.read_buff = <<>>,
                 !.wait_for_connection_establishment = FALSE,
                 !.positions = [i \in 0 .. NumPositions - 1 |-> UnsetPosition],
                 !.position_pointer = 0])

\* mutant: the descriptor is forgotten without being closed
hangup_leaks_socket(t) ==
  GhostReset(
    [t EXCEPT !.fd = INVALID_SOCKET,
              !.read_buff = <<>>,
              !.write_buff = <<>>,
              !.wait_for_connection_establishment = FALSE,
              !.positions = [i \in 0 .. NumPositions - 1 |-> UnsetPosition],
              !.position_pointer = 0])

hangup(t) ==
  LET c == IF ~IS_INVALID_SOCKET(t.fd)
           THEN [close(t) EXCEPT !.fd = INVALID_SOCKET]
           ELSE t
  IN GhostReset(
       [c EXCEPT !.read_buff = <<>>,
                 !.write_buff = <<>>,
                 !.wait_for_connection_establishment = FALSE,
                 !.positions = [i \in 0 .. NumPositions - 1 |-> UnsetPosition],
                 !.position_pointer = 0])

(***************************************************************************)
(* void TelescopeTcp::telescopeGoto(const Vec3d &j2000_pos)                *)
(***************************************************************************)
\* (unsigned int)x for a double x of q quarter turns.  A negative x is out
\* of the range of unsigned int and the conversion is undefined: a build
\* reduces it modulo 2^32 or saturates at 0.
UnsignedInt(q) ==
  IF q >= 0 THEN {QuarterWord(q)} ELSE {QuarterWord(q), Word(0, 0)}

\* (unsigned int)floor(0.5 + ra*(0x80000000/M_PI)), ra = atan2(y, x): the
\* values ra_int may get
GotoRaInt(j) == UnsignedInt(Atan2Quarter(j[2], j[1]))

\* (int)floor(0.5 + dec*(0x80000000/M_PI)), dec = atan2(z, sqrt(x*x+y*y))
GotoDecInt(j) == QuarterWord(Atan2Quarter(j[3], Abs(j[1]) + Abs(j[2])))

\* mutant: the declination is written in front of the right ascension
GotoFrame_dec_before_ra(now, ra_int, dec_int) ==
  <<20, 0>> \o <<0, 0>> \o LongBytes(now)
    \o WordBytes(dec_int) \o WordBytes(ra_int)

\* the 20 bytes written at write_buff_end: length, type, client_micros, ra,
\* dec, each by *write_buff_end++ = x; x >>= 8;
GotoFrame(now, ra_int, dec_int) ==
  <<20, 0>> \o <<0, 0>> \o LongBytes(now)
    \o WordBytes(ra_int) \o WordBytes(dec_int)

GotoPacket(j, now, ra_int) == GotoFrame(LongOf(now), ra_int, GotoDecInt(j))

\* mutant: the test forgets the 20 bytes of the packet to be queued
GotoFits_without_packet(t) == Len(t.write_buff) < WriteBuffSize

\* if (write_buff_end-write_buff+20 < (int)sizeof(write_buff))
GotoFits(t) == Len(t.write_buff) + GotoPacketSize < WriteBuffSize

\* mutant: the request is queued as soon as there is a socket
telescopeGoto_queues_on_any_socket(t, j2000_pos, now, ra_int) ==
  IF ~IS_INVALID_SOCKET(t.fd)
  THEN IF GotoFits(t)
       THEN [t EXCEPT !.write_buff = @ \o GotoPacket(j2000_pos, now, ra_int)]
       ELSE t
  ELSE t

telescopeGoto(t, j2000_pos, now, ra_int) ==
  IF isConnected(t)
  THEN IF GotoFits(t)
       THEN [t EXCEPT !.write_buff = @ \o GotoPacket(j2000_pos, now, ra_int)]
       ELSE t   \* "communication is too slow, I will ignore this command"
  ELSE t

(***************************************************************************)
(* void TelescopeTcp::performWriting(void); r is what send() returned:     *)
(* [rc, errno]                                                             *)
(***************************************************************************)
\* mutant: an interrupted call is taken for a failure
IsFatal_unless_would_block(errno) == errno # EAGAIN

\* ERRNO != EINTR && ERRNO != EAGAIN
IsFatal(errno) == errno # EINTR /\ errno # EAGAIN

\* mutant: after a partial write the bytes are not moved to the front
performWriting_keeps_head(t, r) ==
  LET to_write == Len(t.write_buff) IN
  IF r.rc < 0
  THEN IF IsFatal(r.errno) THEN hangup(t) ELSE t
  ELSE IF r.rc > 0
       THEN IF r.rc >= to_write
            THEN [t EXCEPT !.write_buff = <<>>]
            ELSE [t EXCEPT !.write_buff = SubSeq(@, 1, to_write - r.rc)]
       ELSE t

\* mutant: a send that takes only part of the queue removes nothing
performWriting_keeps_partly_sent(t, r) ==
  LET to_write == Len(t.write_buff) IN
  IF r.rc < 0
  THEN IF IsFatal(r.errno) THEN hangup(t) ELSE t
  ELSE IF r.rc >= to_write /\ r.rc > 0
       THEN [t EXCEPT !.write_buff = <<>>]
       ELSE t

performWriting(t, r) ==
  LET to_write == Len(t.write_buff) IN
  IF r.rc < 0
  THEN IF IsFatal(r.errno) THEN hangup(t) ELSE t
  ELSE IF r.rc > 0
       THEN IF r.rc >= to_write
            THEN [t EXCEPT !.write_buff = <<>>]
            ELSE [t EXCEPT !.write_buff = SubSeq(@, r.rc + 1, to_write)]
       ELSE t

(***************************************************************************)
(* void TelescopeTcp::performReading(void); r is what recv() returned:     *)
(* [rc, errno], the rc bytes being the head of the wire                    *)
(***************************************************************************)
\* the fields of the type 0 packet at p[0..23] and the direction they give
DecodePosition(b, now) ==
  LET ra_int == WordLE(SubSeq(b, 13, 16))
      dec_int == WordLE(SubSeq(b, 17, 20))
      cdec == Cos(dec_int)
  IN [server_micros |-> IntLE(SubSeq(b, 5, 12)),
      client_micros |-> now,
      pos |-> <<Cos(ra_int) * cdec, Sin(ra_int) * cdec, Sin(dec_int)>>,
      status |-> IntLE(SubSeq(b, 21, 24))]

\* mutant: the write cursor wraps one slot early
NextPosition_wraps_early(i) == IF i + 1 >= NumPositions - 1 THEN 0 ELSE i + 1

\* position_pointer++; if (position_pointer >= end_position) ...
NextPosition(i) == IF i + 1 >= NumPositions THEN 0 ELSE i + 1

\* mutant: the sample is stored before the write cursor moves
AppendPosition_post_increment(t, smp) ==
  [t EXCEPT !.positions[t.position_pointer] = smp,
            !.position_pointer = NextPosition(t.position_pointer)]

AppendPosition(t, smp) ==
  LET np == NextPosition(t.position_pointer) IN
  [t EXCEPT !.position_pointer = np, !.positions[np] = smp]

\* mutant: only the lower limit of the size is tested
BadPacketSize_no_upper_limit(size) == size < MinPacketSize

\* size > (int)sizeof(read_buff) || size < 4
BadPacketSize(size) == size > ReadBuffSize \/ size < MinPacketSize

\* mutant: the bytes of a partial packet are dropped after the pass
Compact_drops_partial(t, p) == [t EXCEPT !.read_buff = <<>>]

\* the tail of performReading: everything handled / partly handled
Compact(t, p) ==
  IF p >= Len(t.read_buff)
  THEN [t EXCEPT !.read_buff = <<>>]
  ELSE [t EXCEPT !.read_buff = SubSeq(@, p + 1, Len(@))]

\* mutant: a packet of unknown type is skipped by its header only
RECURSIVE ParsePackets_skips_header_only(_, _, _)
ParsePackets_skips_header_only(t, p, now) ==
  LET avail == Len(t.read_buff) - p IN
  IF avail < 2 THEN Compact(t, p)
  ELSE
    LET size == IntLE(SubSeq(t.read_buff, p + 1, p + 2)) IN
    IF BadPacketSize(size) THEN hangup(t)
    ELSE IF size > avail THEN Compact(t, p)
    ELSE
      LET type == IntLE(SubSeq(t.read_buff, p + 3, p + 4)) IN
      IF type = 0
      THEN IF size < MinPositionPacketSize THEN hangup(t)
           ELSE LET smp == DecodePosition(
                             SubSeq(t.read_buff, p + 1, p + 24), now)
                IN ParsePackets_skips_header_only(
                     GhostSample(AppendPosition(t, smp), smp), p + size, now)
      ELSE ParsePackets_skips_header_only(t, p + MinPacketSize, now)

\* mutant: a type 0 packet too short for a position is skipped
RECURSIVE ParsePackets_skips_short_position(_, _, _)
ParsePackets_skips_short_position(t, p, now) ==
  LET avail == Len(t.read_buff) - p IN
  IF avail < 2 THEN Compact(t, p)
  ELSE
    LET size == IntLE(SubSeq(t.read_buff, p + 1, p + 2)) IN
    IF BadPacketSize(size) THEN hangup(t)
    ELSE IF size > avail THEN Compact(t, p)
    ELSE
      LET type == IntLE(SubSeq(t.read_buff, p + 3, p + 4)) IN
      IF type = 0 /\ size >= MinPositionPacketSize
      THEN LET smp == DecodePosition(
                        SubSeq(t.read_buff, p + 1, p + 24), now)
           IN ParsePackets_skips_short_position(
                GhostSample(AppendPosition(t, smp), smp), p + size, now)
      ELSE ParsePackets_skips_short_position(t, p + size, now)

\* mutant: the type is read before the packet is known to be complete
RECURSIVE ParsePackets_type_before_complete(_, _, _)
ParsePackets_type_before_complete(t, p, now) ==
  LET avail == Len(t.read_buff) - p IN
  IF avail < 2 THEN Compact(t, p)
  ELSE
    LET t1 == GhostPeek(t, p, 2, 0)
        size == IntLE(SubSeq(t.read_buff, p + 1, p + 2))
        t2 == GhostPeek(t1, p, MinPacketSize, size)
        type == IntLE(SubSeq(t.read_buff, p + 3, p + 4))
    IN
    IF BadPacketSize(size) THEN hangup(t2)
    ELSE IF size > avail THEN Compact(t2, p)
    ELSE
      IF type = 0
      THEN IF size < MinPositionPacketSize THEN hangup(t2)
           ELSE LET t3 == GhostPeek(t2, p, MinPositionPacketSize, size)
                    smp == DecodePosition(
                             SubSeq(t.read_buff, p + 1, p + 24), now)
                IN ParsePackets_type_before_complete(
                     GhostSample(AppendPosition(t3, smp), smp), p + size, now)
      ELSE ParsePackets_type_before_complete(t2, p + size, now)

\* the while loop, p being the offset of the parse pointer in read_buff
RECURSIVE ParsePackets(_, _, _)
ParsePackets(t, p, now) ==
  LET avail == Len(t.read_buff) - p IN
  IF avail < 2 THEN Compact(t, p)
  ELSE
    LET t1 == GhostPeek(t, p, 2, 0)
        size == IntLE(SubSeq(t.read_buff, p + 1, p + 2))
    IN
    IF BadPacketSize(size) THEN hangup(t1)
    ELSE IF size > avail THEN Compact(t1, p)
    ELSE
      LET t2 == GhostPeek(t1, p, MinPacketSize, size)
          type == IntLE(SubSeq(t.read_buff, p + 3, p + 4))
      IN
      IF type = 0
      THEN IF size < MinPositionPacketSize THEN hangup(t2)
           ELSE LET t3 == GhostPeek(t2, p, MinPositionPacketSize, size)
                    smp == DecodePosition(
                             SubSeq(t.read_buff, p + 1, p + 24), now)
                IN ParsePackets(GhostSample(AppendPosition(t3, smp), smp),
                                p + size, now)
      ELSE ParsePackets(t2, p + size, now)

\* recv(fd,read_buff_end,to_read,0) returning rc > 0
recv(t, rc) ==
  GhostRecv([t EXCEPT !.read_buff = @ \o SubSeq(t.wire, 1, rc),
                      !.wire = SubSeq(@, rc + 1, Len(@))],
            SubSeq(t.wire, 1, rc))

performReading(t, r, now) ==
  IF r.rc < 0
  THEN IF IsFatal(r.errno) THEN hangup(t) ELSE t
  ELSE IF r.rc = 0
       THEN GhostPeerClosed(hangup(t), now)
       ELSE ParsePackets(recv(t, r.rc), 0, now)

(***************************************************************************)
(* Vec3d TelescopeTcp::getObsJ2000Pos(const Navigator nav) const         *)
(* The value returned is [v, unit, slots]: the vector v, scaled to length  *)
(* 1 when unit, computed from the history slots named.                     *)
(***************************************************************************)
PrevPosition(i) == IF i = 0 THEN NumPositions - 1 ELSE i - 1

Returned(v, unit, slots) == [v |-> v, unit |-> unit, slots |-> slots]

\* pp->client_micros <= now && now <= p->client_micros
Brackets(older, newer, now) ==
  older.client_micros <= now /\ now <= newer.client_micros

\* mutant: each direction is weighted by the distance to its own timestamp
Blend_swapped_weights(older, newer, now) ==
  VAdd(VScale(newer.pos, newer.client_micros - now),
       VScale(older.pos, now - older.client_micros))

\* p->pos * (now - pp->client_micros) + pp->pos * (p->client_micros - now)
Blend(older, newer, now) ==
  VAdd(VScale(newer.pos, now - older.client_micros),
       VScale(older.pos, newer.client_micros - now))

\* mutant: the scan steps onto the unset slot before it stops
RECURSIVE ScanPositions_onto_unset_slot(_, _, _)
ScanPositions_onto_unset_slot(t, p, now) ==
  LET pp == PrevPosition(p)
      newer == t.positions[p]
      older == t.positions[pp]
  IN
  IF older.client_micros = INT64_MAX THEN Returned(older.pos, FALSE, {pp})
  ELSE IF Brackets(older, newer, now)
       THEN IF older.client_micros # newer.client_micros
               /\ Blend(older, newer, now) # Zero3
            THEN Returned(Blend(older, newer, now), TRUE, {p, pp})
            ELSE Returned(newer.pos, FALSE, {p})
       ELSE IF pp # t.position_pointer
            THEN ScanPositions_onto_unset_slot(t, pp, now)
            ELSE Returned(older.pos, FALSE, {pp})

\* the do ... while loop from p on, and the return that follows it
RECURSIVE ScanPositions(_, _, _)
ScanPositions(t, p, now) ==
  LET pp == PrevPosition(p)
      newer == t.positions[p]
      older == t.positions[pp]
  IN
  IF older.client_micros = INT64_MAX THEN Returned(newer.pos, FALSE, {p})
  ELSE IF Brackets(older, newer, now)
       THEN IF older.client_micros # newer.client_micros
               /\ Blend(older, newer, now) # Zero3
            THEN Returned(Blend(older, newer, now), TRUE, {p, pp})
            ELSE Returned(newer.pos, FALSE, {p})
       ELSE IF pp # t.position_pointer
            THEN ScanPositions(t, pp, now)
            ELSE Returned(older.pos, FALSE, {pp})

getObsJ2000Pos(t, getnow) ==
  IF t.positions[t.position_pointer].client_micros = INT64_MAX
  THEN Returned(Zero3, FALSE, {})
  ELSE ScanPositions(t, t.position_pointer, getnow - t.time_delay)

(***************************************************************************)
(* void TelescopeTcp::prepareSelectFds(read_fds, write_fds, fd_max)        *)
(* sys is how the system calls of a connection attempt end; the value is   *)
(* the client and whether fd was added to read_fds and to write_fds.       *)
(***************************************************************************)
Prepared(t, r, w) == [tel |-> t, read_fds |-> r, write_fds |-> w]

\* mutant: the attempt arms the timer with the delay of the connect timeout
Reconnect_short_backoff(t, now, sys) ==
  LET t1 == [t EXCEPT !.end_of_timeout = now + TimeoutRetryDelay]
      t2 == GhostAttempt(socket(t1, sys # "socket_failed"), now)
  IN
  IF IS_INVALID_SOCKET(t2.fd) THEN t2
  ELSE IF sys = "nonblocking_failed" THEN hangup(t2)
  ELSE IF sys = "connect_failed" THEN hangup(t2)
  ELSE IF sys = "connect_in_progress"
       THEN [t2 EXCEPT !.wait_for_connection_establishment = TRUE]
       ELSE [t2 EXCEPT !.wait_for_connection_establishment = FALSE]

\* mutant: the timer is armed only once the connect is under way
Reconnect_arms_on_success(t, now, sys) ==
  LET t2 == GhostAttempt(socket(t, sys # "socket_failed"), now)
      t3 == [t2 EXCEPT !.end_of_timeout = now + ReconnectDelay]
  IN
  IF IS_INVALID_SOCKET(t2.fd) THEN t2
  ELSE IF sys = "nonblocking_failed" THEN hangup(t2)
  ELSE IF sys = "connect_failed" THEN hangup(t2)
  ELSE IF sys = "connect_in_progress"
       THEN [t3 EXCEPT !.wait_for_connection_establishment = TRUE]
       ELSE [t3 EXCEPT !.wait_for_connection_establishment = FALSE]

\* mutant: the attempt arms the timer with twice the delay
Reconnect_long_backoff(t, now, sys) ==
  LET t1 == [t EXCEPT !.end_of_timeout = now + 2 * ReconnectDelay]
      t2 == GhostAttempt(socket(t1, sys # "socket_failed"), now)
  IN
  IF IS_INVALID_SOCKET(t2.fd) THEN t2
  ELSE IF sys = "nonblocking_failed" THEN hangup(t2)
  ELSE IF sys = "connect_failed" THEN hangup(t2)
  ELSE IF sys = "connect_in_progress"
       THEN [t2 EXCEPT !.wait_for_connection_establishment = TRUE]
       ELSE [t2 EXCEPT !.wait_for_connection_establishment = FALSE]

\* the attempt: socket(), SET_NONBLOCKING_MODE(), connect()
Reconnect(t, now, sys) ==
  LET t1 == [t EXCEPT !.end_of_timeout = now + ReconnectDelay]
      t2 == GhostAttempt(socket(t1, sys # "socket_failed"), now)
  IN
  IF IS_INVALID_SOCKET(t2.fd) THEN t2
  ELSE IF sys = "nonblocking_failed" THEN hangup(t2)
  ELSE IF sys = "connect_failed" THEN hangup(t2)
  ELSE IF sys = "connect_in_progress"
       THEN [t2 EXCEPT !.wait_for_connection_establishment = TRUE]
       ELSE [t2 EXCEPT !.wait_for_connection_establishment = FALSE]

\* mutant: the attempt waits until the timer is strictly exceeded
BackoffPending_inclusive(t, now) == now <= t.end_of_timeout

\* if (now < end_of_timeout) return;
BackoffPending(t, now) == now < t.end_of_timeout

\* mutant: the connect times out at the deadline itself
ConnectTimedOut_inclusive(t, now) == now >= t.end_of_timeout

\* if (now > end_of_timeout): connect timeout
ConnectTimedOut(t, now) == now > t.end_of_timeout

\* mutant: the socket of an attempt just started is registered at once
prepareSelectFds_registers_new_socket(t, now, sys) ==
  IF IS_INVALID_SOCKET(t.fd)
  THEN IF BackoffPending(t, now)
       THEN Prepared(t, FALSE, FALSE)
       ELSE LET t1 == Reconnect(t, now, sys)
            IN Prepared(t1, isConnected(t1),
                        t1.wait_for_connection_establishment)
  ELSE IF t.wait_for_connection_establishment
       THEN IF ConnectTimedOut(t, now)
            THEN Prepared(
                   hangup([t EXCEPT !.end_of_timeout = now + TimeoutRetryDelay]),
                   FALSE, FALSE)
            ELSE Prepared(t, FALSE, TRUE)
       ELSE Prepared(t, TRUE, Len(t.write_buff) > 0)

prepareSelectFds(t, now, sys) ==
  IF IS_INVALID_SOCKET(t.fd)
  THEN IF BackoffPending(t, now)
       THEN Prepared(t, FALSE, FALSE)
       ELSE Prepared(Reconnect(t, now, sys), FALSE, FALSE)
  ELSE IF t.wait_for_connection_establishment
       THEN IF ConnectTimedOut(t, now)
            THEN Prepared(
                   hangup([t EXCEPT !.end_of_timeout = now + TimeoutRetryDelay]),
                   FALSE, FALSE)
            ELSE Prepared(t, FALSE, TRUE)
       ELSE Prepared(t, TRUE, Len(t.write_buff) > 0)

(***************************************************************************)
(* void TelescopeTcp::handleSelectFds(read_fds, write_fds)                 *)
(* rd, wr: FD_ISSET(fd, read_fds / write_fds); so: what getsockopt gives;  *)
(* snd, rcv: what send and recv return                                     *)
(***************************************************************************)
\* mutant: the fd sets are not consulted
handleSelectFds_ignores_fd_sets(t, rd, wr, so, snd, rcv, now) ==
  IF ~IS_INVALID_SOCKET(t.fd)
  THEN IF t.wait_for_connection_establishment
       THEN LET t1 == [t EXCEPT !.wait_for_connection_establishment = FALSE]
            IN IF so = "getsockopt_failed" THEN hangup(t1)
               ELSE IF so = "so_error" THEN hangup(t1)
               ELSE t1
       ELSE LET t1 == performWriting(t, snd)
            IN IF ~IS_INVALID_SOCKET(t1.fd)
               THEN performReading(t1, rcv, now)
               ELSE t1
  ELSE t

handleSelectFds(t, rd, wr, so, snd, rcv, now) ==
  IF ~IS_INVALID_SOCKET(t.fd)
  THEN IF t.wait_for_connection_establishment
       THEN IF wr
            THEN LET t1 == [t EXCEPT !.wait_for_connection_establishment = FALSE]
                 IN IF so = "getsockopt_failed" THEN hangup(t1)
                    ELSE IF so = "so_error" THEN hangup(t1)
                    ELSE t1
            ELSE t
       ELSE LET t1 == IF wr THEN performWriting(t, snd) ELSE t
            IN IF ~IS_INVALID_SOCKET(t1.fd) /\ rd
               THEN performReading(t1, rcv, now)
               ELSE t1
  ELSE t

(***************************************************************************)
(* Telescope::create and the constructors it calls.  A QString is a        *)
(* sequence of one-character strings.                                      *)
(***************************************************************************)
INT_MAX == 2147483647
Colon == ":"
Blank == " "
DigitChars == <<"0", "1", "2", "3", "4", "5", "6", "7", "8", "9">>
IsDigit(c) == \E d \in 1 .. 10 : DigitChars[d] = c
DigitValue(c) == (CHOOSE d \in 1 .. 10 : DigitChars[d] = c) - 1

\* the position of the first ':' of s, 0 when it has none
FirstColon(s) ==
  IF \E i \in 1 .. Len(s) : s[i] = Colon
  THEN CHOOSE i \in 1 .. Len(s) :
         s[i] = Colon /\ \A k \in 1 .. i - 1 : s[k] # Colon
  ELSE 0

\* QString::trimmed
RECURSIVE TrimLeft(_)
TrimLeft(s) ==
  IF s # <<>> /\ Head(s) = Blank THEN TrimLeft(Tail(s)) ELSE s

RECURSIVE TrimRight(_)
TrimRight(s) ==
  IF s # <<>> /\ s[Len(s)] = Blank
  THEN TrimRight(SubSeq(s, 1, Len(s) - 1))
  ELSE s

trimmed(s) == TrimRight(TrimLeft(s))

\* QString::toInt without the ok flag: 0 when the number does not fit an int
RECURSIVE DecimalValue(_, _)
DecimalValue(acc, s) ==
  IF s = <<>> THEN acc
  ELSE LET d == DigitValue(Head(s)) IN
       IF acc > (INT_MAX - d) \div 10 THEN -1
       ELSE DecimalValue(acc * 10 + d, Tail(s))

toInt(s) ==
  LET v == DecimalValue(0, s) IN IF v < 0 THEN 0 ELSE v

NoMatch == [matched |-> FALSE, cap1 |-> <<>>, cap2 |-> <<>>, cap3 |-> <<>>,
            cap4 |-> <<>>]

\* mutant: the type runs to the last ':' of the descriptor
recRx_splits_at_last_colon(url) ==
  LET i == FirstColon(url) IN
  IF i = 0 THEN NoMatch
  ELSE LET rest == SubSeq(url, i + 1, Len(url))
           colons == {k \in 1 .. Len(rest) : rest[k] = Colon}
           j == IF colons = {} THEN 0
                ELSE CHOOSE k \in colons : \A m \in colons : m <= k
       IN [matched |-> TRUE,
           cap1 |-> SubSeq(url, 1, i - 1),
           cap2 |-> IF j = 0 THEN rest ELSE SubSeq(rest, 1, j - 1),
           cap3 |-> IF j = 0 THEN <<>> ELSE SubSeq(rest, j, Len(rest)),
           cap4 |-> IF j = 0 THEN <<>> ELSE SubSeq(rest, j + 1, Len(rest))]

\* QRegExp("^([^:]*):([^:]*)(:(.*))?$").exactMatch(url) and its captures
recRx(url) ==
  LET i == FirstColon(url) IN
  IF i = 0 THEN NoMatch
  ELSE LET rest == SubSeq(url, i + 1, Len(url))
           j == FirstColon(rest)
       IN [matched |-> TRUE,
           cap1 |-> SubSeq(url, 1, i - 1),
           cap2 |-> IF j = 0 THEN rest ELSE SubSeq(rest, 1, j - 1),
           cap3 |-> IF j = 0 THEN <<>> ELSE SubSeq(rest, j, Len(rest)),
           cap4 |-> IF j = 0 THEN <<>> ELSE SubSeq(rest, j + 1, Len(rest))]

\* \d+
IsNumber(s) == s # <<>> /\ \A i \in 1 .. Len(s) : IsDigit(s[i])

\* QRegExp("^([^:]*):(\\d+):(\\d+)$").exactMatch(params) and its captures
paramRx(params) ==
  LET i == FirstColon(params) IN
  IF i = 0 THEN NoMatch
  ELSE LET rest == SubSeq(params, i + 1, Len(params))
           j == FirstColon(rest)
       IN IF j = 0 THEN NoMatch
          ELSE LET port == SubSeq(rest, 1, j - 1)
                   delay == SubSeq(rest, j + 1, Len(rest))
               IN IF IsNumber(port) /\ IsNumber(delay)
                  THEN [matched |-> TRUE,
                        cap1 |-> SubSeq(params, 1, i - 1),
                        cap2 |-> port, cap3 |-> delay, cap4 |-> <<>>]
                  ELSE NoMatch

PortNotValid(port) == port <= 0 \/ port > 65535

\* mutant: a delay of zero passes
DelayNotValid_accepts_zero(delay) == delay < 0 \/ delay > 10000000

DelayNotValid(delay) == delay <= 0 \/ delay > 10000000

\* the object after TelescopeTcp::TelescopeTcp; hostent is what
\* gethostbyname answers.  sin_port stays 0 on every early return.
TelescopeTcp(name, params, hostent) ==
  LET m == paramRx(params)
      host == trimmed(m.cap1)
      port == toInt(m.cap2)
      delay == toInt(m.cap3)
      uninitialized ==
        [kind |-> "TelescopeTcp", name |-> name, host |-> <<>>, port |-> 0,
         time_delay |-> IF m.matched THEN delay ELSE 0]
  IN IF ~m.matched THEN uninitialized
     ELSE IF PortNotValid(port) THEN uninitialized
     ELSE IF DelayNotValid(delay) THEN uninitialized
     ELSE IF hostent = "unknown host" THEN uninitialized
     ELSE IF hostent = "not IPv4" THEN uninitialized
     ELSE [kind |-> "TelescopeTcp", name |-> name, host |-> host,
           port |-> port, time_delay |-> delay]

TelescopeDummy(name, params) ==
  [kind |-> "TelescopeDummy", name |-> name, host |-> <<>>, port |-> 0,
   time_delay |-> 0]

\* the type tags create() knows
TypeDummy == <<"D", "u", "m", "m", "y">>
TypeTCP == <<"T", "C", "P">>

\* Telescope::isInitialized of the base class, which TelescopeDummy
\* inherits: a telescope without parameters to validate is initialized
Telescope_isInitialized == TRUE

\* rval->isInitialized(): TelescopeTcp answers sin_port != 0
isInitialized(rval) ==
  IF rval.kind = "TelescopeTcp" THEN rval.port # 0
  ELSE Telescope_isInitialized

\* the parts create() logs before it builds the object
createParts(url) ==
  LET m == recRx(url) IN
  IF ~m.matched THEN NoParts
  ELSE Parts(trimmed(m.cap1), trimmed(m.cap2), trimmed(m.cap4))

create(url, hostent) ==
  LET m == recRx(url) IN
  IF ~m.matched THEN NULL
  ELSE LET name == trimmed(m.cap1)
           type == trimmed(m.cap2)
           params == trimmed(m.cap4)
           rval == IF type = TypeDummy THEN TelescopeDummy(name, params)
                   ELSE IF type = TypeTCP
                        THEN TelescopeTcp(name, params, hostent)
                        ELSE NULL
       IN IF rval # NULL /\ ~isInitialized(rval) THEN NULL ELSE rval

(***************************************************************************)
(* The environment: the reactor that calls the two hooks once per tick,    *)
(* the caller of telescopeGoto, the clock, the kernel and the peer.  An    *)
(* environment E bounds what they do in one specification.                 *)
(***************************************************************************)
IOResult(rc, errno) == [rc |-> rc, errno |-> errno]
NoCall == IOResult(0, "not called")
Called(r) == r.errno # "not called"
FatalResult(r) == Called(r) /\ r.rc < 0 /\ IsFatal(r.errno)

\* what send(fd,write_buff,to_write,0) may return
SendResults(t, E) ==
  LET to_write == Len(t.write_buff) IN
  {IOResult(-1, e) : e \in E.errnos}
    \cup {IOResult(n, "") : n \in {k \in E.sendSizes : k < to_write} \cup {to_write}}

\* what recv(fd,read_buff_end,to_read,0) may return
RecvResults(t, E) ==
  LET to_read == ReadBuffSize - Len(t.read_buff)
      avail == Min(to_read, Len(t.wire))
  IN {IOResult(-1, e) : e \in E.errnos}
       \cup (IF avail > 0
             THEN {IOResult(n, "") : n \in {k \in E.recvSizes : k < avail} \cup {avail}}
             ELSE IF to_read = 0 \/ E.peerCloses THEN {IOResult(0, "")} ELSE {})

\* a type 0 packet of 24 bytes as the peer builds it
PositionPacket(server_micros, raq, decq, status) ==
  <<24, 0>> \o <<0, 0>> \o BytesLE(server_micros, 8)
    \o WordBytes(QuarterWord(raq)) \o WordBytes(QuarterWord(decq))
    \o BytesLE(status, 4)

\* the history of the outbound bytes: a request that was queued adds its
\* frame, and send() takes the bytes it reports from the front
GhostQueued(t, pre, frame) ==
  IF t.write_buff # pre.write_buff
  THEN [t EXCEPT !.ghost.unsent = @ \o frame]
  ELSE t

GhostSent(t, snd) ==
  IF ~IS_INVALID_SOCKET(t.fd) /\ Called(snd) /\ snd.rc > 0
  THEN [t EXCEPT !.ghost.unsent = SubSeq(@, snd.rc + 1, Len(@)),
                 !.ghost.followed = IF @ > snd.rc THEN @ - snd.rc ELSE 0]
  ELSE t

\* a frame that was queued may be picked to be followed to the socket, when
\* none is followed yet
GhostFollowed(t, pre, follow) ==
  IF follow /\ t.write_buff # pre.write_buff /\ t.ghost.followed = 0
  THEN [t EXCEPT !.ghost.followed = Len(t.write_buff)]
  ELSE t

\* what the claims need of the state an operation started in
Before(t) ==
  [state |-> ConnState(t), rlen |-> Len(t.read_buff),
   wlen |-> Len(t.write_buff), known |-> hasKnownPosition(t)]

LastOp(op, t, rd, wr, sys, snd, rcv, arg) ==
  [op |-> op, pre |-> Before(t), rd |-> rd, wr |-> wr, sys |-> sys,
   snd |-> snd, rcv |-> rcv, arg |-> arg]

Init(E) ==
  /\ fd = INVALID_SOCKET
  /\ wait_for_connection_establishment = FALSE
  /\ end_of_timeout = INT64_MIN
  /\ read_buff = <<>>
  /\ write_buff = <<>>
  /\ time_delay \in E.timeDelays
  /\ positions = [i \in 0 .. NumPositions - 1 |-> UnsetPosition]
  /\ position_pointer = 0
  /\ clock = 0
  /\ wire = <<>>
  /\ os_open = 0
  /\ peer_sent = 0
  /\ ghost = GhostInit
  /\ last = [op |-> "TelescopeTcp",
             pre |-> [state |-> "Disconnected", rlen |-> 0, wlen |-> 0,
                      known |-> FALSE],
             rd |-> FALSE, wr |-> FALSE, sys |-> "-", snd |-> NoCall,
             rcv |-> NoCall, arg |-> <<>>]

\* time passes
Tick(E) ==
  /\ clock + E.tick <= E.maxClock * E.tick
  /\ clock' = clock + E.tick
  /\ last' = LastOp("Tick", Self, FALSE, FALSE, "-",
                    NoCall, NoCall, <<>>)
  /\ UNCHANGED <<progVars, wire, os_open, peer_sent, ghost>>

\* the reactor registers interest
PrepareSelectFds(E) ==
  LET t == Self
      attempt == IS_INVALID_SOCKET(t.fd) /\ ~BackoffPending(t, clock)
  IN \E sys \in (IF attempt THEN E.sys ELSE {"-"}) :
       LET r == prepareSelectFds(t, clock, sys) IN
         /\ Commit(r.tel)
         /\ peer_sent' = IF attempt THEN 0 ELSE peer_sent
         /\ last' = LastOp("prepareSelectFds", t, r.read_fds,
                           r.write_fds, sys, NoCall, NoCall, <<>>)
         /\ UNCHANGED clock

\* the reactor reports readiness
HandleSelectFds(E) ==
  LET t == Self
      st == ConnState(t)
  IN \E ready \in E.ready :
       LET rd == ready[1]
           wr == ready[2]
       IN \E so \in (IF st = "Connecting" /\ wr THEN E.sockopt ELSE {"-"}) :
          \E snd \in (IF st = "Connected" /\ wr THEN SendResults(t, E) ELSE {NoCall}) :
          \E rcv \in (IF st = "Connected" /\ rd /\ ~FatalResult(snd)
                      THEN RecvResults(t, E) ELSE {NoCall}) :
            /\ Commit(GhostSent(handleSelectFds(t, rd, wr, so, snd, rcv, clock),
                                snd))
            /\ last' = LastOp("handleSelectFds", t, rd, wr, so, snd, rcv, <<>>)
            /\ UNCHANGED <<clock, peer_sent>>

\* the user asks for a slew
TelescopeGoto(E) ==
  /\ Len(write_buff) < E.maxQueued * GotoPacketSize
  /\ \E j \in E.gotoDirs :
     \E ra_int \in GotoRaInt(j) :
     \E follow \in E.follow :
       /\ Commit(GhostFollowed(
                   GhostQueued(telescopeGoto(Self, j, clock, ra_int), Self,
                               GotoPacket(j, clock, ra_int)),
                   Self, follow))
       /\ last' = LastOp("telescopeGoto", Self, FALSE, FALSE, "-",
                         NoCall, NoCall, j)
  /\ UNCHANGED <<clock, peer_sent>>

\* the peer sends a frame on the established connection
PeerSend(E) ==
  /\ isConnected(Self)
  /\ peer_sent < E.maxFrames
  /\ \E f \in E.frames[peer_sent] :
       /\ Len(wire) + Len(f) <= E.maxWire
       /\ wire' = wire \o f
       /\ last' = LastOp("PeerSend", Self, FALSE, FALSE, "-",
                         NoCall, NoCall, f)
  /\ peer_sent' = peer_sent + 1
  /\ UNCHANGED <<progVars, clock, os_open, ghost>>

\* ~TelescopeTcp(void) {hangup();}
Destroy(E) ==
  /\ Commit(hangup(Self))
  /\ last' = LastOp("~TelescopeTcp", Self, FALSE, FALSE, "-",
                    NoCall, NoCall, <<>>)
  /\ UNCHANGED <<clock, peer_sent>>

\* the object exists: no member function runs after the destructor
Alive == last.op # "~TelescopeTcp"

Next(E) ==
  \/ Tick(E)
  \/ PrepareSelectFds(E)
  \/ HandleSelectFds(E)
  \/ TelescopeGoto(E)
  \/ PeerSend(E)

(***************************************************************************)
(* Environments                                                            *)
(***************************************************************************)
AllSys == {"socket_failed", "nonblocking_failed", "connect_failed",
           "connect_in_progress", "connect_done"}
AllSockopt == {"getsockopt_failed", "so_error", "so_ok"}
AllReady == {<<FALSE, FALSE>>, <<TRUE, FALSE>>, <<FALSE, TRUE>>, <<TRUE, TRUE>>}

\* the k-th frame of a connection, from a telescope on the equator whose
\* right ascension has grown by k quarter turns since the frame before (so
\* that successive frames are a quarter turn apart, opposite, or equal):
\* server time k, status 0
TurningPeer(n) ==
  [k \in 0 .. n |-> {PositionPacket(k, ((k * (k + 1)) \div 2) % 4, 0, 0)}]

\* frames of the parser's other cases: a packet of unknown type whose
\* payload looks like a header, and the headers of a packet too long and of
\* one too short
UnknownPacket == <<6, 0>> \o <<1, 0>> \o <<24, 0>>
OversizeHeader == <<121, 0>> \o <<0, 0>>
UndersizeHeader == <<3, 0>> \o <<0, 0>>

\* the k-th frame of a connection is a position (right ascension k quarter
\* turns, status k) or one of the frames above
MixedPeer(n) ==
  [k \in 0 .. n |-> {PositionPacket(k, k % 4, 0, k), UnknownPacket,
                     OversizeHeader, UndersizeHeader}]

\* Spec: the connection life cycle with every way a system call can end,
\* without data in either direction
LifeEnv ==
  [tick |-> LifeTick,
   maxClock |-> LifeMaxClock,
   timeDelays |-> {500000},
   sys |-> AllSys,
   ready |-> AllReady,
   sockopt |-> AllSockopt,
   errnos |-> {EINTR, EAGAIN, ECONNRESET},
   sendSizes |-> {},
   recvSizes |-> {},
   peerCloses |-> TRUE]

SpecInit == Init(LifeEnv)
SpecNext ==
  \/ Tick(LifeEnv)
  \/ PrepareSelectFds(LifeEnv)
  \/ HandleSelectFds(LifeEnv)
Spec == SpecInit /\ [][SpecNext]_vars

\* SpecData: an established or pending connection with data in both
\* directions, split reads and writes, and every way a call can end
DataEnv ==
  [tick |-> DataTick,
   maxClock |-> DataMaxClock,
   timeDelays |-> {500000},
   sys |-> {"connect_in_progress", "connect_done"},
   ready |-> AllReady,
   sockopt |-> {"so_error", "so_ok"},
   errnos |-> {EAGAIN, ECONNRESET},
   sendSizes |-> {7},
   recvSizes |-> {10},
   peerCloses |-> TRUE,
   frames |-> TurningPeer(DataMaxFrames),
   maxFrames |-> DataMaxFrames,
   maxWire |-> 24,
   gotoDirs |-> {<<0, 0, 1>>},
   maxQueued |-> DataMaxQueued,
   follow |-> {FALSE}]

DataInit == Init(DataEnv)
DataNext == Next(DataEnv)
SpecData == DataInit /\ [][DataNext]_vars

\* SpecRing: a long run of position frames, read whole, on a connection the
\* peer may close, under three transport delays
RingEnv ==
  [tick |-> RingTick,
   maxClock |-> RingMaxClock,
   timeDelays |-> {1250000, 2500000, 10000000},
   sys |-> {"connect_done"},
   ready |-> {<<TRUE, FALSE>>},
   sockopt |-> {"so_ok"},
   errnos |-> {},
   sendSizes |-> {},
   recvSizes |-> {},
   peerCloses |-> TRUE,
   frames |-> TurningPeer(RingMaxFrames),
   maxFrames |-> RingMaxFrames,
   maxWire |-> 24]

RingInit == Init(RingEnv)
RingNext ==
  \/ Tick(RingEnv)
  \/ PrepareSelectFds(RingEnv)
  \/ HandleSelectFds(RingEnv)
  \/ PeerSend(RingEnv)
SpecRing == RingInit /\ [][RingNext]_vars

\* SpecGoto: goto requests against a socket that takes what it is offered,
\* a part of it, or nothing
GotoEnv ==
  [tick |-> GotoTick,
   maxClock |-> GotoMaxClock,
   timeDelays |-> {500000},
   sys |-> {"connect_done"},
   ready |-> {<<FALSE, TRUE>>},
   sockopt |-> {"so_ok"},
   errnos |-> {EAGAIN, ECONNRESET},
   sendSizes |-> {5, 20},
   recvSizes |-> {},
   peerCloses |-> FALSE,
   gotoDirs |-> {<<1, 0, 0>>, <<0, 0, 1>>},
   maxQueued |-> 7,
   follow |-> {FALSE}]

GotoInit == Init(GotoEnv)
GotoNext ==
  \/ Tick(GotoEnv)
  \/ PrepareSelectFds(GotoEnv)
  \/ HandleSelectFds(GotoEnv)
  \/ TelescopeGoto(GotoEnv)
SpecGoto == GotoInit /\ [][GotoNext]_vars

\* SpecCycle: the life cycle of Spec in steps of 3 s, with goto requests in
\* every connection state and a peer that sends one position frame
CycleEnv ==
  [tick |-> CycleTick,
   maxClock |-> CycleMaxClock,
   timeDelays |-> {500000},
   sys |-> AllSys,
   ready |-> AllReady,
   sockopt |-> AllSockopt,
   errnos |-> {ECONNRESET},
   sendSizes |-> {},
   recvSizes |-> {},
   peerCloses |-> TRUE,
   frames |-> TurningPeer(CycleMaxFrames),
   maxFrames |-> CycleMaxFrames,
   maxWire |-> 24,
   gotoDirs |-> {<<0, 0, 1>>},
   maxQueued |-> 2,
   follow |-> {FALSE}]

CycleInit == Init(CycleEnv)
CycleNext == Next(CycleEnv)
SpecCycle == CycleInit /\ [][CycleNext]_vars

\* SpecShort: a peer that sends positions, packets of an unknown type and
\* type 0 packets of 4, 20 and 23 bytes, read 5 bytes at a time or whole
ShortPosition(size) ==
  BytesLE(size, 2) \o <<0, 0>> \o [i \in 1 .. size - 4 |-> 0]

ShortPeer(n) ==
  [k \in 0 .. n |->
     {PositionPacket(k, k % 4, 0, k), UnknownPacket, ShortPosition(4),
      ShortPosition(20), ShortPosition(23)}]

ShortEnv ==
  [tick |-> ShortTick,
   maxClock |-> ShortMaxClock,
   timeDelays |-> {500000},
   sys |-> {"connect_done"},
   ready |-> {<<TRUE, FALSE>>},
   sockopt |-> {"so_ok"},
   errnos |-> {EAGAIN},
   sendSizes |-> {},
   recvSizes |-> {5},
   peerCloses |-> FALSE,
   frames |-> ShortPeer(ShortMaxFrames),
   maxFrames |-> ShortMaxFrames,
   maxWire |-> 30]

ShortInit == Init(ShortEnv)
ShortNext ==
  \/ Tick(ShortEnv)
  \/ PrepareSelectFds(ShortEnv)
  \/ HandleSelectFds(ShortEnv)
  \/ PeerSend(ShortEnv)
SpecShort == ShortInit /\ [][ShortNext]_vars

\* SpecDrain: an established connection that stays up, goto requests
\* without end, and a socket that takes 7 bytes of what it is offered or all
\* of it.  The reactor keeps calling handleSelectFds with the socket ready
\* for writing.
DrainEnv ==
  [timeDelays |-> {500000},
   sys |-> {"connect_done"},
   ready |-> {<<FALSE, FALSE>>, <<FALSE, TRUE>>},
   sockopt |-> {"so_ok"},
   errnos |-> {},
   sendSizes |-> {7},
   recvSizes |-> {},
   peerCloses |-> FALSE,
   gotoDirs |-> {<<0, 0, 1>>},
   maxQueued |-> DrainMaxQueued,
   follow |-> {FALSE, TRUE}]

\* handleSelectFds with the socket in the write set
HandleWriteReady == HandleSelectFds(DrainEnv) /\ last'.wr

DrainInit == Init(DrainEnv)
DrainNext ==
  \/ PrepareSelectFds(DrainEnv)
  \/ HandleSelectFds(DrainEnv)
  \/ TelescopeGoto(DrainEnv)
DrainFairness == WF_vars(HandleWriteReady)
SpecDrain == DrainInit /\ [][DrainNext]_vars /\ DrainFairness

\* SpecReattempt: a server that is refused, accepted or never answers, and
\* that closes or resets an established connection.  The reactor keeps
\* calling prepareSelectFds and the clock keeps advancing up to the horizon.
ReattemptEnv ==
  [tick |-> ReattemptTick,
   maxClock |-> ReattemptMaxClock,
   timeDelays |-> {500000},
   sys |-> AllSys,
   ready |-> AllReady,
   sockopt |-> AllSockopt,
   errnos |-> {ECONNRESET},
   sendSizes |-> {},
   recvSizes |-> {},
   peerCloses |-> TRUE]

ReattemptHorizon == ReattemptEnv.maxClock * ReattemptEnv.tick
ReattemptInit == Init(ReattemptEnv)
ReattemptNext ==
  \/ Tick(ReattemptEnv)
  \/ PrepareSelectFds(ReattemptEnv)
  \/ HandleSelectFds(ReattemptEnv)
ReattemptFairness ==
  /\ WF_vars(Tick(ReattemptEnv))
  /\ WF_vars(PrepareSelectFds(ReattemptEnv))
SpecReattempt == ReattemptInit /\ [][ReattemptNext]_vars /\ ReattemptFairness

\* SpecCodec: goto requests for the six directions along the axes, the two
\* poles and the two of negative right ascension among them
AxisDirections ==
  {<<1, 0, 0>>, <<0, 1, 0>>, <<-1, 0, 0>>, <<0, -1, 0>>, <<0, 0, 1>>,
   <<0, 0, -1>>}

CodecEnv ==
  [tick |-> CodecTick,
   maxClock |-> CodecMaxClock,
   timeDelays |-> {500000},
   sys |-> {"connect_done"},
   ready |-> {<<FALSE, TRUE>>},
   sockopt |-> {"so_ok"},
   errnos |-> {EAGAIN},
   sendSizes |-> {},
   recvSizes |-> {},
   peerCloses |-> FALSE,
   gotoDirs |-> AxisDirections,
   maxQueued |-> 2,
   follow |-> {FALSE}]

CodecInit == Init(CodecEnv)
CodecNext ==
  \/ Tick(CodecEnv)
  \/ PrepareSelectFds(CodecEnv)
  \/ HandleSelectFds(CodecEnv)
  \/ TelescopeGoto(CodecEnv)
SpecCodec == CodecInit /\ [][CodecNext]_vars

\* SpecFill: a peer that sends frames as long as the inbound queue, frames
\* that declare one byte more, and short ones, and that may close; reads of
\* 1 byte, of 119 bytes or of all there is room for
LongestPacket == <<ReadBuffSize, 0>> \o <<1, 0>> \o [i \in 1 .. ReadBuffSize - 4 |-> 0]
OversizePacket ==
  <<ReadBuffSize + 1, 0>> \o <<1, 0>> \o [i \in 1 .. ReadBuffSize - 3 |-> 0]
FillingPeer(n) ==
  [k \in 0 .. n |-> {LongestPacket, OversizePacket, UnknownPacket,
                     PositionPacket(k, k % 4, 0, k)}]

FillEnv ==
  [timeDelays |-> {500000},
   sys |-> {"connect_done"},
   ready |-> {<<TRUE, FALSE>>},
   sockopt |-> {"so_ok"},
   errnos |-> {EAGAIN},
   sendSizes |-> {},
   recvSizes |-> {1, ReadBuffSize - 1},
   peerCloses |-> TRUE,
   frames |-> FillingPeer(FillMaxFrames),
   maxFrames |-> FillMaxFrames,
   maxWire |-> 2 * ReadBuffSize + 1]

FillInit == Init(FillEnv)
FillNext ==
  \/ PrepareSelectFds(FillEnv)
  \/ HandleSelectFds(FillEnv)
  \/ PeerSend(FillEnv)
SpecFill == FillInit /\ [][FillNext]_vars

\* SpecWire: the serialization of a goto request, for timestamps, right
\* ascensions and declinations built from the extreme and from asymmetric
\* 16-bit patterns
LimbPatterns == <<0, 65535, 32768, 32767, 258, 1, 256, 255>>
WireLimbs == {LimbPatterns[i] : i \in 1 .. Min(WireMaxLimbs, Len(LimbPatterns))}
WireWords == {Word(a, b) : a \in WireLimbs, b \in WireLimbs}
WireLongs ==
  {Long(Word(a, b), Word(b, b)) : a \in WireLimbs, b \in WireLimbs}
    \cup {Long(Word(b, b), Word(b, a)) : a \in WireLimbs, b \in WireLimbs}
    \cup {Long(Word(258, 772), Word(1286, 1800))}

WireEnv == [timeDelays |-> {500000}]
WireInit == Init(WireEnv)

\* a goto request is serialized
Serialize ==
  /\ last.op = "TelescopeTcp"
  /\ \E now \in WireLongs :
     \E ra_int \in WireWords :
     \E dec_int \in WireWords :
       /\ ghost' = [ghost EXCEPT !.frame = GotoFrame(now, ra_int, dec_int)]
       /\ last' = LastOp("GotoFrame", Self, FALSE, FALSE, "-", NoCall, NoCall,
                         <<now, ra_int, dec_int>>)
  /\ UNCHANGED <<progVars, clock, wire, os_open, peer_sent>>

WireNext == Serialize
SpecWire == WireInit /\ [][WireNext]_vars

\* SpecParse: a stream of mixed frames read in chunks of 1 byte, 3 bytes or
\* all there is, with reads that would block or are interrupted
ParseEnv ==
  [tick |-> ParseTick,
   maxClock |-> ParseMaxClock,
   timeDelays |-> {500000},
   sys |-> {"connect_done"},
   ready |-> {<<TRUE, FALSE>>},
   sockopt |-> {"so_ok"},
   errnos |-> {EINTR, EAGAIN},
   sendSizes |-> {},
   recvSizes |-> {1, 3},
   peerCloses |-> FALSE,
   frames |-> MixedPeer(ParseMaxFrames),
   maxFrames |-> ParseMaxFrames,
   maxWire |-> 30]

ParseInit == Init(ParseEnv)
ParseNext ==
  \/ Tick(ParseEnv)
  \/ PrepareSelectFds(ParseEnv)
  \/ HandleSelectFds(ParseEnv)
  \/ PeerSend(ParseEnv)
SpecParse == ParseInit /\ [][ParseNext]_vars

\* SpecRetry: an established connection with data in both directions whose
\* calls may be interrupted or would block, and never fail otherwise
RetryEnv ==
  [tick |-> RetryTick,
   maxClock |-> RetryMaxClock,
   timeDelays |-> {500000},
   sys |-> {"connect_done"},
   ready |-> {<<TRUE, FALSE>>, <<TRUE, TRUE>>},
   sockopt |-> {"so_ok"},
   errnos |-> {EINTR, EAGAIN},
   sendSizes |-> {},
   recvSizes |-> {10},
   peerCloses |-> FALSE,
   frames |-> TurningPeer(RetryMaxFrames),
   maxFrames |-> RetryMaxFrames,
   maxWire |-> 24,
   gotoDirs |-> {<<0, 0, 1>>},
   maxQueued |-> 1,
   follow |-> {FALSE}]

RetryInit == Init(RetryEnv)
RetryNext == Next(RetryEnv)
SpecRetry == RetryInit /\ [][RetryNext]_vars

\* SpecDtor: the life cycle of Spec with a peer that may send the header of
\* an oversized packet, ended at any moment by the destructor
DtorEnv ==
  [tick |-> LifeTick,
   maxClock |-> LifeMaxClock,
   timeDelays |-> {500000},
   sys |-> AllSys,
   ready |-> AllReady,
   sockopt |-> AllSockopt,
   errnos |-> {EAGAIN, ECONNRESET},
   sendSizes |-> {},
   recvSizes |-> {},
   peerCloses |-> TRUE,
   frames |-> [k \in 0 .. 1 |-> {OversizeHeader}],
   maxFrames |-> 1,
   maxWire |-> 4]

DtorInit == Init(DtorEnv)
DtorNext ==
  \/ Alive /\ Tick(DtorEnv)
  \/ Alive /\ PrepareSelectFds(DtorEnv)
  \/ Alive /\ HandleSelectFds(DtorEnv)
  \/ Alive /\ PeerSend(DtorEnv)
  \/ Alive /\ Destroy(DtorEnv)
SpecDtor == DtorInit /\ [][DtorNext]_vars

\* SpecCreate: one call of Telescope::create on a descriptor put together
\* from names, type tags, hosts, ports and delays, with the resolver's answer
Scope1 == <<"S", "c", "o", "p", "e", "1">>
TypeStream == <<"S", "t", "r", "e", "a", "m">>
Host127 == <<"1", "2", "7", ".", "0", ".", "0", ".", "1">>
TooBigForInt == <<"4", "2", "9", "4", "9", "6", "7", "2", "9", "7">>

RECURSIVE Decimal(_)
Decimal(n) ==
  IF n < 10 THEN <<DigitChars[n + 1]>>
  ELSE Decimal(n \div 10) \o <<DigitChars[(n % 10) + 1]>>

Pad(n) == [i \in 1 .. n |-> Blank]

RECURSIVE ExtraFields(_)
ExtraFields(n) ==
  IF n = 0 THEN <<>> ELSE <<Colon, "7">> \o ExtraFields(n - 1)

Names == {Scope1, <<>>}
Types ==
  {Pad(a) \o t \o Pad(b) :
     t \in {TypeTCP, TypeDummy, TypeStream, <<>>}, a, b \in 0 .. CreateMaxPad}
Hosts == {Host127, <<"h">>}
Ports ==
  {Decimal(n) : n \in {0, 1, 10001, 65535, 65536}}
    \cup {<<"x">>, <<>>, <<"-", "1">>, <<"0", "8", "0">>, TooBigForInt}
Delays ==
  {Decimal(n) : n \in {0, 1, 500000, 10000000, 10000001}} \cup {TooBigForInt}
ParamTails ==
  {<<>>, <<Colon>>}
    \cup {<<Colon>> \o h \o <<Colon>> \o p \o <<Colon>> \o d \o ExtraFields(x) :
            h \in Hosts, p \in Ports, d \in Delays, x \in 0 .. CreateMaxExtra}
Descriptors ==
  {n \o <<Colon>> \o t \o p : n \in Names, t \in Types, p \in ParamTails}
    \cup {Scope1, <<>>, Host127}
Hostents == {"IPv4", "unknown host", "not IPv4"}

CreateInit ==
  /\ fd = INVALID_SOCKET
  /\ wait_for_connection_establishment = FALSE
  /\ end_of_timeout = INT64_MIN
  /\ read_buff = <<>>
  /\ write_buff = <<>>
  /\ time_delay = 0
  /\ positions = [i \in 0 .. NumPositions - 1 |-> UnsetPosition]
  /\ position_pointer = 0
  /\ clock = 0
  /\ wire = <<>>
  /\ os_open = 0
  /\ peer_sent = 0
  /\ \E url \in Descriptors : ghost = [GhostInit EXCEPT !.descriptor = url]
  /\ last = [op |-> "main",
             pre |-> [state |-> "Disconnected", rlen |-> 0, wlen |-> 0,
                      known |-> FALSE],
             rd |-> FALSE, wr |-> FALSE, sys |-> "-", snd |-> NoCall,
             rcv |-> NoCall, arg |-> <<>>]

\* the application asks the factory for a telescope
Create ==
  /\ last.op = "main"
  /\ \E hostent \in Hostents :
       LET url == ghost.descriptor
           rval == create(url, hostent)
       IN /\ ghost' = [ghost EXCEPT !.parts = createParts(url),
                                    !.rval = rval]
          /\ time_delay' = rval.time_delay
          /\ last' = LastOp("create", Self, FALSE, FALSE, hostent,
                            NoCall, NoCall, url)
  /\ UNCHANGED <<fd, wait_for_connection_establishment, end_of_timeout,
                 read_buff, write_buff, positions, position_pointer, clock,
                 wire, os_open, peer_sent>>

CreateNext == Create
SpecCreate == CreateInit /\ [][CreateNext]_vars

(***************************************************************************)
(* The claims                                                              *)
(***************************************************************************)
AllUnset == \A i \in 0 .. NumPositions - 1 : positions[i] = UnsetPosition

\* the last operation was handleSelectFds on an established connection and
\* its send failed fatally, or its recv failed fatally or read zero bytes
FatalOnConnected ==
  /\ last.op = "handleSelectFds"
  /\ last.pre.state = "Connected"
  /\ \/ FatalResult(last.snd)
     \/ FatalResult(last.rcv)
     \/ Called(last.rcv) /\ last.rcv.rc = 0

\* C1: on an established connection, a zero-length read or a fatal send or
\* recv error closes the socket and leaves the client Disconnected, both
\* queues empty, every history slot unset and the position unknown.
C1_FatalErrorDisconnects ==
  FatalOnConnected =>
    /\ ConnState(Self) = "Disconnected"
    /\ os_open = 0
    /\ read_buff = <<>>
    /\ write_buff = <<>>
    /\ AllUnset
    /\ ~hasKnownPosition(Self)

\* a zero-length read on a connection that had a goto queued and a known
\* position
C1_Witness ==
  /\ FatalOnConnected
  /\ last.rcv.rc = 0 /\ Called(last.rcv)
  /\ last.pre.wlen > 0
  /\ last.pre.known

(***************************************************************************)
(* The history as the claims see it: ghost.samples is the retained samples *)
(* in arrival order, the last one the newest.                              *)
(***************************************************************************)
\* Q = now - configured transport delay
QueryTime == clock - time_delay

\* what currentDirection() returns in this state
CurrentDirection == getObsJ2000Pos(Self, clock)

Retained == Len(ghost.samples)
OldestRetained == ghost.samples[1]

RingFull == ghost.nsamples >= NumPositions

PrecedesAllRetained ==
  \A j \in 1 .. Retained : QueryTime < ghost.samples[j].client_micros

\* C2: once 16 or more frames have arrived on the connection, a query time
\* earlier than the receipt time of every retained sample gets the direction
\* of the oldest retained sample, and no unset slot is read.
C2_OldestWhenQueryPrecedesAll ==
  (RingFull /\ PrecedesAllRetained) =>
    /\ CurrentDirection.v = OldestRetained.pos
    /\ ~CurrentDirection.unit
    /\ \A i \in CurrentDirection.slots : positions[i] # UnsetPosition

\* the adjacent pair (j - 1, j) of retained samples brackets Q
BracketAt(j) ==
  /\ ghost.samples[j - 1].client_micros <= QueryTime
  /\ QueryTime <= ghost.samples[j].client_micros

HasBracket == \E j \in 2 .. Retained : BracketAt(j)

\* the first bracketing pair met scanning backward from the newest sample
FirstBracket ==
  CHOOSE j \in 2 .. Retained :
    BracketAt(j) /\ \A k \in (j + 1) .. Retained : ~BracketAt(k)

Older == ghost.samples[FirstBracket - 1]
Newer == ghost.samples[FirstBracket]

StrictBracket == HasBracket /\ Older.client_micros < Newer.client_micros

WeightOfNewer == QueryTime - Older.client_micros
WeightOfOlder == Newer.client_micros - QueryTime

\* newer.dir*(Q - older.t) + older.dir*(newer.t - Q)
Weighted == VAdd(VScale(Newer.pos, WeightOfNewer), VScale(Older.pos, WeightOfOlder))

SameDirection(u, v) == Cross(u, v) = Zero3 /\ Dot(u, v) > 0

\* what the claim says of a normalized blend r
BlendFacts(r) ==
  /\ r.unit
  /\ r.v = Weighted
  /\ QueryTime = Older.client_micros => SameDirection(r.v, Older.pos)
  /\ QueryTime = Newer.client_micros => SameDirection(r.v, Newer.pos)
  /\ WeightOfNewer = WeightOfOlder => Dot(r.v, Older.pos) = Dot(r.v, Newer.pos)

\* C3 as claimed: when the first bracketing pair has older.t < newer.t, the
\* result is the normalization of newer.dir*(Q - older.t) +
\* older.dir*(newer.t - Q), with non-negative weights, older's direction at
\* Q = older.t, newer's at Q = newer.t, and equidistant from both at the
\* midpoint.
C3_AlwaysNormalizedBlend ==
  StrictBracket =>
    /\ WeightOfNewer >= 0 /\ WeightOfOlder >= 0
    /\ Weighted # Zero3
    /\ BlendFacts(CurrentDirection)

\* C3: when the first bracketing pair has older.t < newer.t, both weights are
\* non-negative and the result is the normalization of the weighted sum
\* (older's direction at Q = older.t, newer's at Q = newer.t, equidistant
\* from both at the midpoint), unless the weighted sum is the zero vector:
\* then the result is the newer sample's raw direction.
C3_NormalizedBlendOrNewer ==
  StrictBracket =>
    /\ WeightOfNewer >= 0 /\ WeightOfOlder >= 0
    /\ IF Weighted # Zero3
       THEN BlendFacts(CurrentDirection)
       ELSE ~CurrentDirection.unit /\ CurrentDirection.v = Newer.pos

\* a query at Q = older.t between two samples a quarter turn apart
C3_Witness ==
  /\ StrictBracket
  /\ QueryTime = Older.client_micros
  /\ Dot(Older.pos, Newer.pos) = 0
  /\ CurrentDirection.unit

\* C4: the outbound queue never holds more than 120 bytes, and a goto
\* request that would overflow it changes nothing: the queued bytes, the
\* connection state, the socket and the history stay as they were.
C4_GotoNeverOverflows ==
  /\ [](Len(write_buff) <= WriteBuffSize)
  /\ [][(last'.op = "telescopeGoto"
          /\ Len(write_buff) + GotoPacketSize > WriteBuffSize)
        => UNCHANGED <<progVars, os_open, wire>>]_vars

\* a goto request was made with more than 100 bytes queued
C4_Witness ==
  /\ last.op = "telescopeGoto"
  /\ last.pre.state = "Connected"
  /\ last.pre.wlen + GotoPacketSize > WriteBuffSize
  /\ Len(write_buff) = last.pre.wlen

\* C5: handleSelectFds called with the socket in neither fd set changes
\* nothing in any connection state: socket, connection flag, timer, both
\* queues, history slots, write cursor and what the peer has sent.
C5_IdleHandleChangesNothing ==
  [][(last'.op = "handleSelectFds" /\ ~last'.rd /\ ~last'.wr)
     => UNCHANGED <<progVars, os_open, wire, ghost>>]_vars

\* an idle call while the connect is pending
C5_Witness ==
  /\ last.op = "handleSelectFds"
  /\ ~last.rd /\ ~last.wr
  /\ last.pre.state = "Connecting"

\* the clock of the last socket() call
LastAttempt == ghost.attempts[Len(ghost.attempts)]

\* C6: two successive connection attempts are at least 5 s apart, whatever
\* way the earlier one ended.
C6_AttemptsBackoffApart ==
  Len(ghost.attempts) = 2 =>
    ghost.attempts[2] - ghost.attempts[1] >= ReconnectDelay

\* a second attempt exactly 5 s after a first one that had reached Connected
\* and was torn down by a zero-length read
C6_Witness ==
  /\ Len(ghost.attempts) = 2
  /\ ghost.attempts[2] - ghost.attempts[1] = ReconnectDelay
  /\ ghost.after_close # NoTime

\* C7 as claimed: the attempt that follows a zero-length read comes at least
\* 5 s after that read.
C7_BackoffSinceDisconnection ==
  ghost.after_close # NoTime => ghost.after_close >= ReconnectDelay

\* C7: the attempt that follows a zero-length read comes at least 5 s after
\* the attempt before it (not after the read), and a prepareSelectFds call
\* made after the read leaves the client without a new attempt only while
\* fewer than 5 s have passed since that earlier attempt.
C7_BackoffSinceAttempt ==
  /\ ghost.after_close # NoTime =>
       /\ Len(ghost.attempts) = 2
       /\ ghost.attempts[2] - ghost.attempts[1] >= ReconnectDelay
  /\ (last.op = "prepareSelectFds" /\ ghost.peer_closed # NoTime) =>
       clock < LastAttempt + ReconnectDelay

\* an attempt made in the same instant as the zero-length read before it
C7_Witness ==
  /\ last.op = "prepareSelectFds"
  /\ ghost.after_close = 0
  /\ Len(ghost.attempts) = 2

\* the last operation was prepareSelectFds on a pending connect
PreparedWhileConnecting ==
  last.op = "prepareSelectFds" /\ last.pre.state = "Connecting"

C9_KnownIffSampleSinceReset ==
  /\ hasKnownPosition(Self) <=> ghost.nsamples > 0
  /\ ~hasKnownPosition(Self) => CurrentDirection = Returned(Zero3, FALSE, {})

\* a known position forgotten by a reset
C9_Witness ==
  /\ last.op = "handleSelectFds"
  /\ last.pre.known
  /\ ~hasKnownPosition(Self)
  /\ CurrentDirection.v = Zero3

\* the slot of the j-th retained sample, counting back from the write cursor
SlotOf(j) == (position_pointer + NumPositions - (Retained - j)) % NumPositions

\* C10: the history holds exactly the min(k, 16) samples stored last since
\* the last reset, in arrival order ending at the write cursor, and every
\* other slot is unset (timestamps INT64_MAX).
C10_RingHoldsLatestInOrder ==
  /\ Retained = Min(ghost.nsamples, NumPositions)
  /\ \A j \in 1 .. Retained : positions[SlotOf(j)] = ghost.samples[j]
  /\ \A i \in 0 .. NumPositions - 1 :
       (\A j \in 1 .. Retained : i # SlotOf(j)) =>
          /\ positions[i] = UnsetPosition
          /\ positions[i].client_micros = INT64_MAX
  /\ ghost.nsamples = 0 => position_pointer = 0

\* the ring has wrapped: a 17th sample has replaced the first
C10_Witness ==
  /\ ghost.nsamples = NumPositions + 1
  /\ positions[1] = ghost.samples[NumPositions]

(***************************************************************************)
(* The inbound stream as the claims see it: one pass over a whole byte     *)
(* sequence, frame by frame, as section 4.4 of the specification words it. *)
(***************************************************************************)
FrameLength(b) == b[1] + 256 * b[2]
FrameType(b) == b[3] + 256 * b[4]
LengthInRange(n) == n >= 4 /\ n <= ReadBuffSize

\* walking b frame by frame, a length outside [4, 120] is peeked
RECURSIVE MeetsBadLength(_)
MeetsBadLength(b) ==
  IF Len(b) < 2 THEN FALSE
  ELSE LET n == FrameLength(b) IN
       IF ~LengthInRange(n) THEN TRUE
       ELSE IF Len(b) < n THEN FALSE
       ELSE IF FrameType(b) = 0 /\ n < 24 THEN FALSE
       ELSE MeetsBadLength(SubSeq(b, n + 1, Len(b)))

\* a sample without its receipt time
Strip(smp) ==
  [server_micros |-> smp.server_micros, pos |-> smp.pos, status |-> smp.status]

StripAll(smps) == [j \in 1 .. Len(smps) |-> Strip(smps[j])]

RefResult(smps, rest, bad) == [samples |-> smps, rest |-> rest, bad |-> bad]

\* the samples of the whole frames of b, the bytes of the partial frame that
\* ends b, and whether a framing error is met
RECURSIVE RefParse(_)
RefParse(b) ==
  IF Len(b) < 2 THEN RefResult(<<>>, b, FALSE)
  ELSE LET n == FrameLength(b) IN
       IF ~LengthInRange(n) THEN RefResult(<<>>, <<>>, TRUE)
       ELSE IF Len(b) < n THEN RefResult(<<>>, b, FALSE)
       ELSE LET after == RefParse(SubSeq(b, n + 1, Len(b))) IN
            IF FrameType(b) # 0 THEN after
            ELSE IF n < 24 THEN RefResult(<<>>, <<>>, TRUE)
            ELSE RefResult(<<Strip(DecodePosition(SubSeq(b, 1, 24), 0))>>
                             \o after.samples,
                           after.rest, after.bad)

\* in the step taken, recv delivered bytes; Parsed is what the parser then
\* had before it: the bytes kept from earlier reads and the bytes delivered
Received == last'.op = "handleSelectFds" /\ last'.rcv.rc > 0
Parsed == read_buff \o SubSeq(wire, 1, last'.rcv.rc)

\* the samples the step has stored
StoredByStep ==
  SubSeq(ghost'.samples, Len(ghost.samples) + 1, Len(ghost'.samples))

FullyDisconnected ==
  /\ ConnState(Self) = "Disconnected"
  /\ os_open = 0
  /\ read_buff = <<>>
  /\ write_buff = <<>>
  /\ AllUnset

\* C11: whenever the parser peeks a frame length outside [4, 120] the client
\* disconnects fully (socket closed, both queues emptied, history all unset,
\* state Disconnected) and no sample of this pass or an earlier one remains.
C11_BadLengthDisconnects ==
  [][(Received /\ MeetsBadLength(Parsed))
     => /\ FullyDisconnected'
        /\ ghost'.nsamples = 0
        /\ ~hasKnownPosition(Self)']_vars

\* a header with length 121 or 3 arrived on a connection with a known
\* position
C11_Witness ==
  /\ last.op = "handleSelectFds"
  /\ last.rcv.rc > 0
  /\ last.pre.known
  /\ FullyDisconnected

\* the bytes before the parser begin with a whole frame of a type other
\* than 0
HeadIsUnknownFrame(b) ==
  /\ Len(b) >= 4
  /\ LengthInRange(FrameLength(b))
  /\ Len(b) >= FrameLength(b)
  /\ FrameType(b) # 0

AfterHead(b) == SubSeq(b, FrameLength(b) + 1, Len(b))

\* C12: a whole frame of a type other than 0 is skipped by exactly its
\* length: the pass stores the samples, and keeps the bytes, that the
\* frames after it alone give, and the connection stays as it was.
C12_UnknownTypeSkipped ==
  [][(Received /\ HeadIsUnknownFrame(Parsed))
     => IF RefParse(AfterHead(Parsed)).bad
        THEN FullyDisconnected'
        ELSE /\ fd' = fd
             /\ ConnState(Self)' = "Connected"
             /\ os_open' = os_open
             /\ StripAll(StoredByStep) = RefParse(AfterHead(Parsed)).samples
             /\ read_buff' = RefParse(AfterHead(Parsed)).rest
             /\ ghost'.nsamples = ghost.nsamples + Len(StoredByStep)]_vars

\* a frame of unknown type came first on the connection, and the position
\* frame after it was stored
C12_Witness ==
  /\ Len(ghost.stream) >= Len(UnknownPacket) + MinPositionPacketSize
  /\ SubSeq(ghost.stream, 1, Len(UnknownPacket)) = UnknownPacket
  /\ FrameType(AfterHead(ghost.stream)) = 0
  /\ ghost.nsamples = 1
  /\ ConnState(Self) = "Connected"

\* C13: however the stream is split across reads, the samples stored since
\* the connection was made are those of the whole frames of the bytes
\* received so far, in order, and the inbound queue holds exactly the bytes
\* of the partial frame that ends them.
C13_SplitIndependent ==
  /\ ~RefParse(ghost.stream).bad
  /\ StripAll(ghost.samples) = RefParse(ghost.stream).samples
  /\ read_buff = RefParse(ghost.stream).rest

\* a position frame that arrived in more than one read, after an earlier
\* frame, has been stored while a partial frame waits in the queue
C13_Witness ==
  /\ ghost.nsamples = 2
  /\ last.op = "handleSelectFds"
  /\ last.pre.rlen > 0
  /\ read_buff # <<>>

\* C14: the bytes handed to the socket are a prefix of the accepted goto
\* frames in request order: the outbound queue is always the accepted frames
\* less the bytes the socket has taken, and a write that accepts rc bytes
\* removes exactly the first rc bytes and keeps the rest in order.
C14_SentIsPrefixOfQueued ==
  /\ [](write_buff = ghost.unsent)
  /\ [][(last'.op = "handleSelectFds" /\ last'.snd.rc > 0 /\ ~IS_INVALID_SOCKET(fd'))
        => write_buff' = SubSeq(write_buff, last'.snd.rc + 1, Len(write_buff))]_vars

\* a write took a part of a queue of several frames, not a whole number of
\* frames
C14_Witness ==
  /\ last.op = "handleSelectFds"
  /\ last.snd.rc > 0
  /\ last.snd.rc % GotoPacketSize # 0
  /\ last.pre.wlen > 2 * GotoPacketSize
  /\ Len(write_buff) = last.pre.wlen - last.snd.rc
  /\ write_buff = ghost.unsent

\* the call was made and ended with EAGAIN or EINTR
Transient(r) == Called(r) /\ r.rc < 0 /\ r.errno \in {EAGAIN, EINTR}

\* the last handleSelectFds found the client Connected, made a call or two,
\* and each call made would block or was interrupted
OnlyTransient(l) ==
  /\ l.op = "handleSelectFds"
  /\ l.pre.state = "Connected"
  /\ Transient(l.snd) \/ Transient(l.rcv)
  /\ Called(l.snd) => Transient(l.snd)
  /\ Called(l.rcv) => Transient(l.rcv)

\* C15: a would-block or interrupted result of recv or send on a Connected
\* client changes nothing: the socket, the connection state, both queues,
\* the history and the bytes in flight are as before.
C15_TransientChangesNothing ==
  [][OnlyTransient(last')
     => /\ UNCHANGED <<progVars, os_open, wire, ghost>>
        /\ ConnState(Self)' = "Connected"]_vars

\* send was interrupted and recv would block, with a goto frame queued, a
\* partial frame in the inbound queue and a known position
C15_Witness ==
  /\ OnlyTransient(last)
  /\ last.snd.errno = EINTR
  /\ last.rcv.errno = EAGAIN
  /\ write_buff # <<>>
  /\ read_buff # <<>>
  /\ hasKnownPosition(Self)

\* C16: the client holds at most one open socket, and holds it exactly when
\* fd is valid; a socket is created only while Disconnected with none open;
\* every step into Disconnected closes the socket held, once; after the
\* destructor no socket is open.
C16_OneSocketNeverLeaked ==
  /\ [](/\ os_open \in {0, 1}
        /\ os_open = 1 <=> ~IS_INVALID_SOCKET(fd)
        /\ ~Alive => os_open = 0)
  /\ [][/\ os_open' > os_open =>
             ConnState(Self) = "Disconnected" /\ os_open = 0
        /\ (ConnState(Self) # "Disconnected"
              /\ ConnState(Self)' = "Disconnected") =>
             os_open' = os_open - 1]_vars

\* the destructor ran on a pending connect
C16_Witness ==
  /\ ~Alive
  /\ last.pre.state = "Connecting"
  /\ os_open = 0
  /\ IS_INVALID_SOCKET(fd)

\* the descriptor cut at every ':'
RECURSIVE Fields(_)
Fields(s) ==
  LET i == FirstColon(s) IN
  IF i = 0 THEN <<s>>
  ELSE <<SubSeq(s, 1, i - 1)>> \o Fields(SubSeq(s, i + 1, Len(s)))

\* fields a .. b of f put together again with ':' between them
RECURSIVE Joined(_, _, _)
Joined(f, a, b) ==
  IF a > b THEN <<>>
  ELSE IF a = b THEN f[a]
  ELSE f[a] \o <<Colon>> \o Joined(f, a + 1, b)

RECURSIVE WithoutLeadingZeros(_)
WithoutLeadingZeros(s) ==
  IF Len(s) > 1 /\ Head(s) = "0" THEN WithoutLeadingZeros(Tail(s)) ELSE s

RECURSIVE ValueOf(_)
ValueOf(s) ==
  IF s = <<>> THEN 0
  ELSE 10 * ValueOf(SubSeq(s, 1, Len(s) - 1)) + DigitValue(s[Len(s)])

\* s is a decimal number between lo and hi
DecimalBetween(s, lo, hi) ==
  /\ IsNumber(s)
  /\ Len(WithoutLeadingZeros(s)) <= 9
  /\ ValueOf(WithoutLeadingZeros(s)) >= lo
  /\ ValueOf(WithoutLeadingZeros(s)) <= hi

Created == last.op = "create"
TypeOf(url) == trimmed(Fields(url)[2])

\* HOST:PORT:DELAY with the port and the delay in range and a host that
\* resolves to an IPv4 address
StreamParamsValidate(url, hostent) ==
  LET f == Fields(url) IN
  /\ Len(f) = 5
  /\ DecimalBetween(f[4], 1, 65535)
  /\ DecimalBetween(f[5], 1, 10000000)
  /\ hostent = "IPv4"

Scope1Params == Host127 \o <<Colon>> \o Decimal(10001) \o <<Colon>> \o Decimal(500000)
Scope1Stream == Scope1 \o <<Colon>> \o TypeStream \o <<Colon>> \o Scope1Params
Scope1TCP == Scope1 \o <<Colon>> \o TypeTCP \o <<Colon>> \o Scope1Params
Scope1Client ==
  [kind |-> "TelescopeTcp", name |-> Scope1, host |-> Host127,
   port |-> 10001, time_delay |-> 500000]

\* the descriptor is cut at its first two ':' only: the name and the type
\* are its first two fields and the params are all that follows the second
\* ':', other ':' included; a descriptor without ':' gives no telescope
SplitAtFirstTwoColons ==
  Created =>
    LET url == ghost.descriptor
        f == Fields(url)
    IN IF Len(f) = 1
       THEN ghost.rval = NULL /\ ghost.parts = NoParts
       ELSE /\ ghost.parts.name = trimmed(f[1])
            /\ ghost.parts.type = trimmed(f[2])
            /\ ghost.parts.params = trimmed(Joined(f, 3, Len(f)))
            /\ ghost.rval # NULL => ghost.rval.name = ghost.parts.name
            /\ ghost.rval.kind = "TelescopeTcp" =>
                 ghost.parts.params =
                   ghost.rval.host \o <<Colon>> \o f[4] \o <<Colon>> \o f[5]

Echo(goto) ==
  <<24, 0>> \o <<0, 0>> \o SubSeq(goto, 5, 12) \o SubSeq(goto, 13, 20)
    \o <<0, 0, 0, 0>>

\* a goto request was queued in this step
GotoQueued == last'.op = "telescopeGoto" /\ write_buff' # write_buff
QueuedFrame == SubSeq(write_buff', Len(write_buff) + 1, Len(write_buff'))

\* C19: the angles telescopeGoto encodes for a direction, decoded as
\* performReading decodes a position, give that direction again, for every
\* direction, those of negative right ascension and the poles included
\* (the directions of the model are exact, so within one quantization step
\* is equality)
C19_GotoThenDecodeRoundTrip ==
  [][GotoQueued =>
       DecodePosition(Echo(QueuedFrame), clock).pos = last'.arg]_vars

NewestRetained == ghost.samples[Retained]

\* C20: while 1 to 15 samples have been stored on the connection, a query
\* time that no adjacent pair of them brackets (it lies before the oldest or
\* after the newest) gets the direction of the oldest retained sample: the
\* scan stops in front of the first unset slot and never returns its zero
\* direction.
C20_PartialRingOldest ==
  (ghost.nsamples >= 1 /\ ghost.nsamples < NumPositions /\ ~HasBracket) =>
    /\ QueryTime < OldestRetained.client_micros
         \/ QueryTime > NewestRetained.client_micros
         \/ Retained = 1
    /\ CurrentDirection.v = OldestRetained.pos
    /\ CurrentDirection.v # Zero3
    /\ ~CurrentDirection.unit
    /\ \A i \in CurrentDirection.slots : positions[i] # UnsetPosition

\* three samples, the query time after the newest, which points elsewhere
\* than the oldest
C20_Witness ==
  /\ ghost.nsamples = 3
  /\ QueryTime > NewestRetained.client_micros
  /\ NewestRetained.pos # OldestRetained.pos
  /\ positions[0] = UnsetPosition
  /\ CurrentDirection.v = OldestRetained.pos

\* a goto request was made on an established connection in this step
GotoOnConnected == last'.op = "telescopeGoto" /\ isConnected(Self)

\* the step appended exactly one goto frame to the outbound queue
AppendedOneFrame ==
  /\ Len(write_buff') = Len(write_buff) + GotoPacketSize
  /\ SubSeq(write_buff', 1, Len(write_buff)) = write_buff
  /\ \E ra_int \in GotoRaInt(last'.arg) :
       QueuedFrame = GotoPacket(last'.arg, clock, ra_int)

\* C21: a goto request on a Connected client is dropped only when its 20
\* bytes would exceed the 120 bytes of the outbound queue: with at most 100
\* bytes queued the request appends exactly one 20-byte frame.
C21_QueuedWheneverItFits ==
  [][GotoOnConnected =>
       IF Len(write_buff) + GotoPacketSize <= WriteBuffSize
       THEN AppendedOneFrame
       ELSE write_buff' = write_buff]_vars

\* the last operation was prepareSelectFds
Registered == last.op = "prepareSelectFds"

\* C22: prepareSelectFds called on a Connected client adds the socket to the
\* read set, and to the write set iff the outbound queue is not empty; called
\* on a pending connect that has not timed out it adds the socket to the
\* write set only; called on a Disconnected client it adds the socket to
\* neither set, even when the call starts a new attempt.
C22_InterestByState ==
  Registered =>
    /\ last.pre.state = "Connected" =>
         last.rd /\ (last.wr <=> last.pre.wlen > 0)
    /\ (last.pre.state = "Connecting" /\ ConnState(Self) = "Connecting") =>
         ~last.rd /\ last.wr
    /\ last.pre.state = "Disconnected" => ~last.rd /\ ~last.wr

\* a call that found the client Disconnected and left it Connected
C22_Witness ==
  /\ Registered
  /\ last.pre.state = "Disconnected"
  /\ last.sys = "connect_done"
  /\ ConnState(Self) = "Connected"
  /\ ~last.rd /\ ~last.wr

\* what write-readiness does to a pending connect: so is what getsockopt
\* gave for SO_ERROR
ConnectResolved(so) ==
  IF so = "so_ok"
  THEN /\ ConnState(Self)' = "Connected"
       /\ fd' = fd
       /\ os_open' = os_open
       /\ read_buff' = <<>>
       /\ write_buff' = <<>>
  ELSE /\ ConnState(Self)' = "Disconnected"
       /\ os_open' = 0

\* C23: a pending connect ends only in handleSelectFds with the socket
\* write-ready or in the connect timeout of prepareSelectFds.  On
\* write-ready a pending error of 0 makes the client Connected on the same
\* socket with both queues empty; a pending error, or a getsockopt that
\* fails, closes the socket and leaves it Disconnected.  A connect that
\* completes at once takes the client from Disconnected to Connected in the
\* same call.
C23_ConnectingResolves ==
  /\ [][(ConnState(Self) = "Connecting" /\ ConnState(Self)' # "Connecting") =>
          \/ last'.op = "handleSelectFds" /\ last'.wr
          \/ /\ last'.op = "prepareSelectFds"
             /\ clock > end_of_timeout
             /\ ConnState(Self)' = "Disconnected"
             /\ os_open' = 0]_vars
  /\ [][(ConnState(Self) = "Connecting" /\ last'.op = "handleSelectFds"
           /\ last'.wr) => ConnectResolved(last'.sys)]_vars
  /\ [][(ConnState(Self) = "Disconnected" /\ last'.op = "prepareSelectFds"
           /\ last'.sys = "connect_done") =>
          ConnState(Self)' = "Connected" /\ os_open' = 1]_vars

\* write-readiness with no pending error established the connection
C23_Witness ==
  /\ last.op = "handleSelectFds"
  /\ last.pre.state = "Connecting"
  /\ last.wr
  /\ last.sys = "so_ok"
  /\ ConnState(Self) = "Connected"
  /\ os_open = 1

SetupFailures == {"socket_failed", "nonblocking_failed", "connect_failed"}

\* the last operation was an attempt that failed in socket(), in
\* SET_NONBLOCKING_MODE() or in connect()
AttemptFailed == Registered /\ last.sys \in SetupFailures

\* C24: an attempt that fails in socket(), in the switch to non-blocking
\* mode or in connect() (other than in progress) leaves the client
\* Disconnected with no socket open and the timer armed to 5 s after the
\* attempt, and while the timer has not run out prepareSelectFds on the
\* Disconnected client makes no attempt and changes nothing.
C24_FailedAttemptBacksOff ==
  /\ [](AttemptFailed =>
          /\ ConnState(Self) = "Disconnected"
          /\ os_open = 0
          /\ end_of_timeout = clock + ReconnectDelay)
  /\ [][(ConnState(Self) = "Disconnected" /\ last'.op = "prepareSelectFds"
           /\ clock < end_of_timeout) =>
          /\ last'.sys = "-"
          /\ UNCHANGED <<progVars, os_open, ghost>>]_vars

\* a second attempt, made once the backoff of the first had run out, failed
\* in the switch to non-blocking mode
C24_Witness ==
  /\ AttemptFailed
  /\ last.sys = "nonblocking_failed"
  /\ Len(ghost.attempts) = 2
  /\ ConnState(Self) = "Disconnected"
  /\ os_open = 0
  /\ end_of_timeout = clock + ReconnectDelay

\* walking b frame by frame, a whole type 0 frame is met whose length is
\* less than the 24 bytes of a position
RECURSIVE MeetsShortPosition(_)
MeetsShortPosition(b) ==
  IF Len(b) < 2 THEN FALSE
  ELSE LET n == FrameLength(b) IN
       IF ~LengthInRange(n) THEN FALSE
       ELSE IF Len(b) < n THEN FALSE
       ELSE IF FrameType(b) = 0 /\ n < 24 THEN TRUE
       ELSE MeetsShortPosition(SubSeq(b, n + 1, Len(b)))

\* C25: a whole type 0 frame with a length field in [4, 23] is a framing
\* error: the client disconnects fully (socket closed, both queues emptied,
\* history all unset, state Disconnected), and no sample is stored from it;
\* it is not skipped as a frame of unknown type is.
C25_ShortPositionDisconnects ==
  [][(Received /\ MeetsShortPosition(Parsed))
     => /\ FullyDisconnected'
        /\ ghost'.nsamples = 0
        /\ ghost'.samples = <<>>]_vars

\* the second part of a 23 byte type 0 frame arrived on a connection with a
\* known position
C25_Witness ==
  /\ last.op = "handleSelectFds"
  /\ last.rcv.rc > 0
  /\ last.pre.rlen > 0
  /\ last.pre.known
  /\ ghost.nsamples = 0
  /\ FullyDisconnected

\* C26: in every reachable state a client that is not Connected has both
\* queues empty and every history slot unset, so a known position implies
\* Connected; and the connecting flag is set only while a socket is open, so
\* that the socket and the flag always spell one of the three states.
C26_IdleUnlessConnected ==
  /\ ~isConnected(Self) =>
       /\ write_buff = <<>>
       /\ read_buff = <<>>
       /\ AllUnset
       /\ position_pointer = 0
  /\ hasKnownPosition(Self) => ConnState(Self) = "Connected"
  /\ wait_for_connection_establishment =>
       ~IS_INVALID_SOCKET(fd) /\ os_open = 1
  /\ IS_INVALID_SOCKET(fd) <=> os_open = 0

\* a connect pending after a first connection that the peer closed
C26_Witness ==
  /\ ConnState(Self) = "Connecting"
  /\ Len(ghost.attempts) = 2
  /\ ghost.after_close # NoTime
  /\ write_buff = <<>>
  /\ AllUnset

\* C27: a goto request made while the client is Disconnected or Connecting
\* does nothing: no byte is queued and the socket, the flag, the timer, the
\* queues and the history stay as they were, so the connection made later
\* starts with an empty outbound queue and sends nothing of that request:
\* all the socket is ever handed comes from requests accepted while
\* Connected.
C27_GotoIgnoredUnlessConnected ==
  /\ [][(last'.op = "telescopeGoto" /\ ~isConnected(Self))
        => UNCHANGED <<progVars, os_open, wire, ghost>>]_vars
  /\ [][(ConnState(Self) # "Connected" /\ ConnState(Self)' = "Connected")
        => write_buff' = <<>> /\ ghost'.unsent = <<>>]_vars
  /\ [][(last'.op = "handleSelectFds" /\ last'.snd.rc > 0)
        => last'.snd.rc <= Len(ghost.unsent)]_vars

\* a request made while the connect was pending
C27_Witness ==
  /\ last.op = "telescopeGoto"
  /\ last.pre.state = "Connecting"
  /\ ConnState(Self) = "Connecting"
  /\ write_buff = <<>>
  /\ ghost.unsent = <<>>

\* the last operation was a goto request that was queued
GotoAccepted ==
  last.op = "telescopeGoto" /\ Len(write_buff) = last.pre.wlen + GotoPacketSize

\* C28 as claimed: while the client stays Connected, with the reactor
\* running and every send taking at least one byte, the outbound queue
\* eventually becomes empty.
C28_QueueEventuallyEmpty ==
  (isConnected(Self) /\ write_buff # <<>>) ~> (write_buff = <<>>)

\* C28: while the client stays Connected, with the reactor running and every
\* send taking at least one byte, every accepted goto frame is eventually
\* written in full; a queue that is not empty becomes empty unless a
\* further goto is accepted; and with the queue empty no interest in writing
\* is registered.
C28_FramesWrittenQueueDrains ==
  /\ (ghost.followed > 0) ~> (ghost.followed = 0)
  /\ (write_buff # <<>>) ~> (write_buff = <<>> \/ GotoAccepted)
  /\ [](ghost.followed <= Len(write_buff))
  /\ []((Registered /\ last.pre.state = "Connected" /\ write_buff = <<>>)
          => ~last.wr)

\* the frame followed is the second of the queue, behind the rest of a
\* frame that is partly written
C28_Witness ==
  /\ isConnected(Self)
  /\ last.op = "telescopeGoto"
  /\ last.pre.wlen = GotoPacketSize - 7
  /\ ghost.followed = Len(write_buff)
  /\ Len(write_buff) = 2 * GotoPacketSize - 7

\* prepareSelectFds has just started a connection attempt
AttemptStarted ==
  /\ last.op = "prepareSelectFds"
  /\ last.pre.state = "Disconnected"
  /\ last.sys # "-"
  /\ LastAttempt = clock

\* C29: with the reactor calling prepareSelectFds again and again and the
\* clock advancing, a Disconnected client eventually starts a connection
\* attempt; and at every moment the backoff deadline lies at most 5 s ahead
\* of the clock.
C29_DisconnectedEventuallyRetries ==
  /\ [](end_of_timeout <= clock + ReconnectDelay)
  /\ (ConnState(Self) = "Disconnected"
        /\ clock + ReconnectDelay <= ReattemptHorizon) ~> AttemptStarted

\* an attempt started after the backoff that a connect timeout had armed
C29_Witness ==
  /\ AttemptStarted
  /\ Len(ghost.attempts) = 2
  /\ clock - ghost.attempts[1] > ReconnectDelay + TimeoutRetryDelay
  /\ end_of_timeout = clock + ReconnectDelay

\* a goto request was serialized; its inputs
Serialized == last.op = "GotoFrame"
FrameNow == last.arg[1]
FrameRa == last.arg[2]
FrameDec == last.arg[3]

\* C30: the serialized goto is 20 bytes: little-endian length 20, type 0,
\* the 64-bit timestamp, the 32-bit ra and the 32-bit dec; and the
\* little-endian decoding performReading applies to the bytes 4..11, 12..15
\* and 16..19 of a frame gives back the timestamp, the unsigned ra and the
\* signed dec, the negative ones included.
C30_SerializationInvertsDecoding ==
  Serialized =>
    /\ Len(ghost.frame) = GotoPacketSize
    /\ IntLE(SubSeq(ghost.frame, 1, 2)) = GotoPacketSize
    /\ IntLE(SubSeq(ghost.frame, 3, 4)) = 0
    /\ \A i \in 1 .. GotoPacketSize : ghost.frame[i] \in 0 .. 255
    /\ LongLE(SubSeq(ghost.frame, 5, 12)) = FrameNow
    /\ WordLE(SubSeq(ghost.frame, 13, 16)) = FrameRa
    /\ WordLE(SubSeq(ghost.frame, 17, 20)) = FrameDec
    /\ IntOf(WordLE(SubSeq(ghost.frame, 17, 20))) = IntOf(FrameDec)
    /\ (FrameNow.hi = Word(0, 0) /\ FrameNow.lo.hi < 32768) =>
         IntLE(SubSeq(ghost.frame, 5, 12)) = IntOf(FrameNow.lo)

\* a frame with the least long long, a right ascension above 2^31 and a
\* negative declination
C30_Witness ==
  /\ Serialized
  /\ FrameNow = Long(Word(32768, 0), Word(0, 0))
  /\ FrameRa = Word(65535, 258)
  /\ IntOf(FrameDec) = 0 - 65536 + 258
  /\ ghost.frame = <<20, 0, 0, 0, 0, 0, 0, 0, 0, 0, 0, 128,
                     2, 1, 255, 255, 2, 1, 255, 255>>

\* handleSelectFds has just called recv
RecvIssued == last.op = "handleSelectFds" /\ Called(last.rcv)

\* C31: the inbound queue never holds more than 119 bytes once a read pass
\* is over, so recv is always called with room for at least 1 byte: a recv
\* that returns 0 is never one that was given no room to read into.
C31_ReadQueueNeverFull ==
  /\ Len(read_buff) <= ReadBuffSize - 1
  /\ RecvIssued => ReadBuffSize - last.pre.rlen >= 1

\* 119 bytes of a frame of 120 are queued after a read pass
C31_Witness ==
  /\ RecvIssued
  /\ last.rcv.rc = 1
  /\ last.pre.rlen = ReadBuffSize - 2
  /\ Len(read_buff) = ReadBuffSize - 1
  /\ IntLE(SubSeq(read_buff, 1, 2)) = ReadBuffSize

\* C32: the parser reads no byte at or beyond the end of the buffered
\* bytes: it reads the length with at least 2 bytes buffered at the parse
\* pointer, the type with a complete frame of at least 4 bytes buffered
\* there, and the bytes 4..23 of a type 0 frame with a complete frame of at
\* least 24 bytes buffered there.
C32_ParserReadsWithinBuffered == ghost.misread = ""

\* a position decoded in the pass that received the last of its 24 bytes,
\* the last byte read being the last byte buffered
C32_Witness ==
  /\ RecvIssued
  /\ last.rcv.rc = 1
  /\ last.pre.rlen = MinPositionPacketSize - 1
  /\ ghost.nsamples = 1
  /\ read_buff = <<>>
  /\ isConnected(Self)

====
